---- MODULE Spec2Model ----
(***************************************************************************)
(* Model of the volatile job queue (InMemoryQueue, services/queueService)  *)
(* of the zoom-teams-app repository: add / process / on / execute with     *)
(* retry and backoff.  JavaScript runs each continuation to completion, so *)
(* every action is one synchronous segment of the code: from the call (or  *)
(* the resumption of an await) to the next await or return.                *)
(***************************************************************************)
EXTENDS Integers, Sequences, FiniteSets, TLC

\* ---------------------------------------------------------------- bounds
MaxJobs == 2
MaxAttempts == 4
MaxDelay == 2
MaxListeners == 3
MaxHandlers == 2
MaxWebhooks == 2
MaxUpserts == 2
MaxFaults == 3
MaxTokenCalls == 3
MaxTicks == 5

\* ------------------------------------------------------------- constants
\* options.attempts ?? 1
DefaultAttempts == 1

\* an option that is not given (undefined)
Absent == -1

\* the safety buffer of the token cache, in ms
SafetyBuffer == 120000

\* the lifetime taken for a token that comes without expiresOnTimestamp
DefaultLifetimeMs == 3600 * 1000

\* the expires_in taken for a token response without expires_in, in s
DefaultExpiresIn == 3600

\* the clock is read in steps of one minute, from the start of the service
TickMs == 60000

StartMs == 10 * TickMs

Max(a, b) == IF a >= b THEN a ELSE b

Events == {"completed", "failed", "error"}

\* the registered processors; 0 is null (none registered)
Handlers == 1..MaxHandlers

\* ----------------------------------------------------------- job options
\* Queue.JobOptions['backoff']: undefined, a number, or { type, delay }
NoBackoff == [kind |-> "none", type |-> "", delay |-> Absent]

NumberBackoffs == { [kind |-> "number", type |-> "", delay |-> d] : d \in 0..MaxDelay }

ObjectBackoffs ==
  { [kind |-> "object", type |-> t, delay |-> d] :
      t \in {"exponential", "fixed"}, d \in {Absent} \cup (0..MaxDelay) }

Backoffs == {NoBackoff} \cup NumberBackoffs \cup ObjectBackoffs

AttemptsOptions == {Absent, -2} \cup (0..MaxAttempts)

\* every options object add() may be given
AllOptions == [attempts : AttemptsOptions, backoff : Backoffs]

\* the options the multi-job specification draws from
PlainOptions ==
  [attempts : {2},
   backoff : {NoBackoff, [kind |-> "number", type |-> "", delay |-> 1]}]

\* ------------------------------------------------------------- errors
NoError == [src |-> "none", at |-> 0]
HandlerError(attempt) == [src |-> "handler", at |-> attempt]
ListenerError(attempt) == [src |-> "listener", at |-> attempt]
NotConfiguredError(attempt) == [src |-> "noproc", at |-> attempt]

\* ------------------------------------------------------------- state
VARIABLES
  nextId,     \* InMemoryQueue.nextId
  handler,    \* InMemoryQueue.handler (0 = null)
  pending,    \* InMemoryQueue.pending: ids of the buffered jobs, in order
  listeners,  \* InMemoryQueue.listeners: per event, the listeners in
              \* registration order; TRUE marks a listener that throws
  counts,     \* InMemoryQueue.counts
  jobs,       \* every job created by add, indexed by id: its options, the
              \* position of its execute() call, and the record of what
              \* happened to it
  started,    \* ids of the jobs in the order of their first handler call
  svc,        \* QueueService: its three queues (missedCalls, voicemails,
              \* salesCalls), each the state of one InMemoryQueue
  responses,  \* the webhook requests handled so far, each with the status
              \* of its response
  salesLeads,      \* the items of the Sales Leads SharePoint list, by id
  salesCalls,      \* the items of the Sales Calls SharePoint list, by id
  tasks,      \* the Planner tasks with their details, by id
  posts,      \* the messages posted to the Teams channel
  procs,      \* the invocations of GraphService / QueueProcessor methods:
              \* their position (the request they await) and their locals
  faults,     \* the number of requests that have failed so far
  redisUrl,   \* config.redisUrl (REDIS_URL of the environment)
  backend,    \* QueueService: the kind of each of its three queues
              \* ("none" before the constructor has run)
  graphAccessToken,        \* GraphService.graphAccessToken (0 = null)
  graphAccessTokenExpiry,  \* GraphService.graphAccessTokenExpiry, in ms
  now,        \* Date.now(), in ms
  tokenCalls  \* the calls of getGraphAccessToken: the request each awaits,
              \* or the token it returned and whether the cache served it

queueVars == <<nextId, handler, pending, listeners, counts, jobs, started>>

routeVars == <<svc, responses>>

storeVars == <<salesLeads, salesCalls, tasks, posts, procs, faults>>

backendVars == <<redisUrl, backend>>

tokenVars == <<graphAccessToken, graphAccessTokenExpiry, now, tokenCalls>>

vars == <<nextId, handler, pending, listeners, counts, jobs, started,
          svc, responses, salesLeads, salesCalls, tasks, posts, procs, faults,
          redisUrl, backend,
          graphAccessToken, graphAccessTokenExpiry, now, tokenCalls>>

\* ------------------------------------------------------ getBackoffDelay
BackoffExponentOffByOne(backoff, attempt) ==
  IF backoff.kind = "none" \/ (backoff.kind = "number" /\ backoff.delay = 0)
  THEN 0
  ELSE IF backoff.kind = "number"
  THEN backoff.delay
  ELSE LET baseDelay == IF backoff.delay # Absent THEN backoff.delay ELSE 0
       IN IF backoff.type = "exponential"
          THEN baseDelay * 2 ^ attempt
          ELSE baseDelay

BackoffFixedGrows(backoff, attempt) ==
  IF backoff.kind = "none" \/ (backoff.kind = "number" /\ backoff.delay = 0)
  THEN 0
  ELSE IF backoff.kind = "number"
  THEN backoff.delay * attempt
  ELSE LET baseDelay == IF backoff.delay # Absent THEN backoff.delay ELSE 0
       IN IF backoff.type = "exponential"
          THEN baseDelay * 2 ^ (attempt - 1)
          ELSE baseDelay * attempt

getBackoffDelay(backoff, attempt) ==
  IF backoff.kind = "none" \/ (backoff.kind = "number" /\ backoff.delay = 0)
  THEN 0
  ELSE IF backoff.kind = "number"
  THEN backoff.delay
  ELSE LET baseDelay == IF backoff.delay # Absent THEN backoff.delay ELSE 0
       IN IF backoff.type = "exponential"
          THEN baseDelay * 2 ^ (attempt - 1)
          ELSE baseDelay

\* const attempts = Math.max(1, options.attempts ?? 1)
AttemptsDefaultThree(options) ==
  Max(1, IF options.attempts = Absent THEN 3 ELSE options.attempts)

Attempts(options) ==
  Max(1, IF options.attempts = Absent THEN DefaultAttempts ELSE options.attempts)

\* ------------------------------------------------------------ listeners
\* listeners[event].forEach(listener => listener(...)): the listeners are
\* called in registration order; the first one that throws ends the forEach
\* and the exception leaves it.
FirstThrowing(ls) ==
  IF \E i \in 1..Len(ls) : ls[i]
  THEN CHOOSE i \in 1..Len(ls) : ls[i] /\ \A k \in 1..(i - 1) : ~ls[k]
  ELSE 0

ForEach(ls, event, err) ==
  LET ft == FirstThrowing(ls)
      n == IF ft = 0 THEN Len(ls) ELSE ft
  IN [calls |-> [i \in 1..n |-> [ev |-> event, idx |-> i, err |-> err]],
      threw |-> ft # 0]

\* --------------------------------------------------------------- execute
\* The operators below work on Q = [counts, jobs, started] and give the
\* value of Q after the code they model; h and ls are this.handler and
\* this.listeners, which these segments read and never write.
RECURSIVE RunAttempt(_, _, _, _), Catch(_, _, _, _, _), NextAttempt(_, _, _, _)

\* the handler a job's attempt calls
HandlerCapturedAtStart(Q, j, h) ==
  IF Q.jobs[j].hcalls = <<>> THEN h ELSE Q.jobs[j].hcalls[1]

HandlerForAttempt(Q, j, h) == h

\* lines 106-110: attempts exhausted
ExhaustedKeepsActive(Q, j, ls) ==
  LET jb == Q.jobs[j]
      f == ForEach(ls.failed, "failed", jb.lastError)
      e == IF f.threw THEN [calls |-> <<>>, threw |-> TRUE]
           ELSE ForEach(ls.error, "error", jb.lastError)
  IN [Q EXCEPT
        !.counts.failed = @ + 1,
        !.jobs[j].nFailed = @ + 1,
        !.jobs[j].lcalls = @ \o f.calls \o e.calls,
        !.jobs[j].pc = IF e.threw THEN "rejected" ELSE "failed",
        !.jobs[j].execPromise = IF e.threw THEN "rejected" ELSE "fulfilled"]

Exhausted(Q, j, ls) ==
  LET jb == Q.jobs[j]
      f == ForEach(ls.failed, "failed", jb.lastError)
      e == IF f.threw THEN [calls |-> <<>>, threw |-> TRUE]
           ELSE ForEach(ls.error, "error", jb.lastError)
  IN [Q EXCEPT
        !.counts.active = Max(0, @ - 1),
        !.counts.failed = @ + 1,
        !.jobs[j].nFailed = @ + 1,
        !.jobs[j].lcalls = @ \o f.calls \o e.calls,
        !.jobs[j].pc = IF e.threw THEN "rejected" ELSE "failed",
        !.jobs[j].execPromise = IF e.threw THEN "rejected" ELSE "fulfilled"]

\* lines 83-88: one pass through the try block up to the await
RunAttempt(Q, j, h, ls) ==
  IF h = 0
  THEN Catch(Q, j, NotConfiguredError(Q.jobs[j].attempt), h, ls)
  ELSE [Q EXCEPT
          !.jobs[j].pc = "handler",
          !.jobs[j].hcalls = Append(@, HandlerForAttempt(Q, j, h)),
          !.started = IF Q.jobs[j].hcalls = <<>> THEN Append(@, j) ELSE @]

\* the for statement's attempt++ and its test attempt <= attempts
NextAttempt(Q, j, h, ls) ==
  LET Q1 == [Q EXCEPT !.jobs[j].attempt = @ + 1]
  IN IF Q1.jobs[j].attempt <= Attempts(Q1.jobs[j].options)
     THEN RunAttempt(Q1, j, h, ls)
     ELSE Exhausted(Q1, j, ls)

\* lines 93-103: the catch block up to the await of sleep
Catch(Q, j, error, h, ls) ==
  LET jb == Q.jobs[j]
      Q1 == [Q EXCEPT !.jobs[j].lastError = error]
  IN IF jb.attempt < Attempts(jb.options)
     THEN LET delay == getBackoffDelay(jb.options.backoff, jb.attempt)
              Q2 == [Q1 EXCEPT !.jobs[j].delays = Append(@, delay)]
          IN IF delay > 0
             THEN [Q2 EXCEPT
                     !.counts.delayed = @ + 1,
                     !.jobs[j].sleeps = @ + 1,
                     !.jobs[j].pc = "sleep"]
             ELSE NextAttempt(Q2, j, h, ls)
     ELSE NextAttempt(Q1, j, h, ls)

\* lines 89-92: the handler's promise fulfilled
SucceedKeepsActive(Q, j, h, ls) ==
  LET r == ForEach(ls.completed, "completed", NoError)
      Q1 == [Q EXCEPT
               !.counts.completed = @ + 1,
               !.jobs[j].nCompleted = @ + 1,
               !.jobs[j].lcalls = @ \o r.calls]
  IN IF r.threw
     THEN Catch(Q1, j, ListenerError(Q1.jobs[j].attempt), h, ls)
     ELSE [Q1 EXCEPT !.jobs[j].pc = "completed",
                     !.jobs[j].execPromise = "fulfilled"]

Succeed(Q, j, h, ls) ==
  LET r == ForEach(ls.completed, "completed", NoError)
      Q1 == [Q EXCEPT
               !.counts.active = Max(0, @ - 1),
               !.counts.completed = @ + 1,
               !.jobs[j].nCompleted = @ + 1,
               !.jobs[j].lcalls = @ \o r.calls]
  IN IF r.threw
     THEN Catch(Q1, j, ListenerError(Q1.jobs[j].attempt), h, ls)
     ELSE [Q1 EXCEPT !.jobs[j].pc = "completed",
                     !.jobs[j].execPromise = "fulfilled"]

\* lines 75-82 and the first pass of the loop
ExecuteAfterEarlierJobs(Q, j, h, ls) ==
  IF \E i \in 1..Len(Q.jobs) : i # j /\ Q.jobs[i].pc \in {"handler", "sleep"}
  THEN Q
  ELSE LET Q1 == [Q EXCEPT
                    !.counts.waiting = Max(0, @ - 1),
                    !.counts.active = @ + 1,
                    !.jobs[j].attempt = 1]
       IN RunAttempt(Q1, j, h, ls)

Execute(Q, j, h, ls) ==
  LET Q1 == [Q EXCEPT
               !.counts.waiting = Max(0, @ - 1),
               !.counts.active = @ + 1,
               !.jobs[j].attempt = 1]
  IN RunAttempt(Q1, j, h, ls)

\* for (const item of queued) void this.execute(item.job, item.options)
RECURSIVE DrainReversed(_, _, _, _), Drain(_, _, _, _)

DrainReversed(Q, queued, h, ls) ==
  IF queued = <<>> THEN Q
  ELSE DrainReversed(Execute(Q, queued[Len(queued)], h, ls),
                     SubSeq(queued, 1, Len(queued) - 1), h, ls)

DrainFirstOnly(Q, queued, h, ls) ==
  IF queued = <<>> THEN Q ELSE Execute(Q, Head(queued), h, ls)

Drain(Q, queued, h, ls) ==
  IF queued = <<>> THEN Q
  ELSE Drain(Execute(Q, Head(queued), h, ls), Tail(queued), h, ls)

\* add's promise: execute's promise is discarded (void), and add is async,
\* so add's promise is fulfilled when its body returns
AddAwaitsExecute(execPromise) == execPromise

AddPromise(execPromise) == "fulfilled"

NewJob(options) ==
  [options |-> options, pc |-> "pending", attempt |-> 0,
   lastError |-> NoError, execPromise |-> "none", addPromise |-> "none",
   buffered |-> FALSE,
   hcalls |-> <<>>, outcomes |-> <<>>, delays |-> <<>>, sleeps |-> 0,
   lcalls |-> <<>>, nCompleted |-> 0, nFailed |-> 0]

TheQ == [counts |-> counts, jobs |-> jobs, started |-> started]

SetQ(Q) ==
  /\ counts' = Q.counts
  /\ jobs' = Q.jobs
  /\ started' = Q.started

\* ------------------------------------------------- a queue as a value
\* The state of one InMemoryQueue as a record, and add / process / on as
\* functions of it, for the three queues QueueService owns; datas[j] is the
\* data of job j.
NewQueue ==
  [nextId |-> 1, handler |-> 0, pending |-> <<>>,
   listeners |-> [completed |-> <<>>, failed |-> <<>>, error |-> <<>>],
   counts |-> [waiting |-> 0, active |-> 0, completed |-> 0, failed |-> 0,
               delayed |-> 0, paused |-> 0],
   jobs |-> <<>>, started |-> <<>>, datas |-> <<>>]

QueueAdd(q, data, options) ==
  LET j == q.nextId
      Q0 == [counts |-> q.counts,
             jobs |-> Append(q.jobs, NewJob(options)),
             started |-> q.started]
      Q == IF q.handler = 0
           THEN [Q0 EXCEPT !.counts.waiting = Len(q.pending) + 1,
                           !.jobs[j].buffered = TRUE,
                           !.jobs[j].addPromise = "fulfilled"]
           ELSE LET Q1 == [Q0 EXCEPT !.counts.waiting = @ + 1,
                                     !.jobs[j].execPromise = "pending"]
                    Q2 == Execute(Q1, j, q.handler, q.listeners)
                IN [Q2 EXCEPT !.jobs[j].addPromise =
                                 AddPromise(Q2.jobs[j].execPromise)]
  IN [q EXCEPT
        !.nextId = @ + 1,
        !.pending = IF q.handler = 0 THEN Append(@, j) ELSE @,
        !.datas = Append(@, data),
        !.counts = Q.counts,
        !.jobs = Q.jobs,
        !.started = Q.started]

QueueProcess(q, h) ==
  IF Len(q.pending) = 0
  THEN [q EXCEPT !.handler = h]
  ELSE LET Q0 == [counts |-> [q.counts EXCEPT !.waiting = Len(q.pending)],
                  jobs |-> [i \in 1..Len(q.jobs) |->
                              IF q.jobs[i].pc = "pending"
                              THEN [q.jobs[i] EXCEPT !.execPromise = "pending"]
                              ELSE q.jobs[i]],
                  started |-> q.started]
           Q == Drain(Q0, q.pending, h, q.listeners)
       IN [q EXCEPT !.handler = h, !.pending = <<>>, !.counts = Q.counts,
                    !.jobs = Q.jobs, !.started = Q.started]

QueueOn(q, event, throws) ==
  [q EXCEPT !.listeners[event] = Append(@, throws)]

\* ------------------------------------------------------- QueueService
QueueNames == {"missedCalls", "voicemails", "salesCalls"}

\* the options addMissedCall / addVoicemail / addSalesCall pass to add
ServiceAttempts == 3
ServiceBackoffDelay == 2000

ServiceOptions ==
  [attempts |-> ServiceAttempts,
   backoff |-> [kind |-> "object", type |-> "exponential",
                delay |-> ServiceBackoffDelay]]

\* ------------------------------------------------------------ strings
\* The strings the routes compare are sequences of characters, so that
\* toLowerCase and includes are computed and not assumed.
UpperChars ==
  <<"A", "B", "C", "D", "E", "F", "G", "H", "I", "J", "K", "L", "M",
    "N", "O", "P", "Q", "R", "S", "T", "U", "V", "W", "X", "Y", "Z">>

LowerChars ==
  <<"a", "b", "c", "d", "e", "f", "g", "h", "i", "j", "k", "l", "m",
    "n", "o", "p", "q", "r", "s", "t", "u", "v", "w", "x", "y", "z">>

LowerChar(c) ==
  IF \E i \in 1..Len(UpperChars) : UpperChars[i] = c
  THEN LowerChars[CHOOSE i \in 1..Len(UpperChars) : UpperChars[i] = c]
  ELSE c

ToLowerCase(str) == [i \in 1..Len(str) |-> LowerChar(str[i])]

Includes(str, sub) ==
  \E i \in 0..(Len(str) - Len(sub)) : SubSeq(str, i + 1, i + Len(sub)) = sub

EmptyStr == <<>>
StrCallCanceled == <<"C", "a", "l", "l", " ", "C", "a", "n", "c", "e", "l", "e", "d">>
StrVoicemail == <<"V", "o", "i", "c", "e", "m", "a", "i", "l">>
StrNoAnswer == <<"N", "o", " ", "A", "n", "s", "w", "e", "r">>
StrAnswered == <<"A", "n", "s", "w", "e", "r", "e", "d">>
StrMissed == <<"M", "i", "s", "s", "e", "d">>
StrMissedLower == <<"m", "i", "s", "s", "e", "d">>
StrMissedCallUpper == <<"M", "I", "S", "S", "E", "D", " ", "C", "A", "L", "L">>
StrCallMissedMixed == <<"c", "a", "l", "l", " ", "M", "i", "s", "s", "e", "d">>
StrVoicemailLower == <<"v", "o", "i", "c", "e", "m", "a", "i", "l">>
StrNoAnswerUpper == <<"N", "O", " ", "A", "N", "S", "W", "E", "R">>
StrRecorded == <<"R", "e", "c", "o", "r", "d", "e", "d">>

\* ------------------------------------------------------ webhook events
\* A ZoomWebhookEvent, reduced to what the route reads: its type tag, the
\* handup_result and result of payload.object, and the result of
\* payload.object.call_logs[0]; a field that is absent is the empty string
\* (both are falsy).
MakeEvent(tag, handup, result, logResult) ==
  [event |-> tag, handup_result |-> handup, result |-> result,
   log_result |-> logResult]

EndedTags == {"phone.callee_ended", "phone.caller_ended"}

\* the (handup_result, result) pairs of the call-ended events
EndedFields ==
  { <<StrCallCanceled, EmptyStr>>, <<StrVoicemail, EmptyStr>>,
    <<StrNoAnswer, EmptyStr>>, <<EmptyStr, StrNoAnswer>>,
    <<EmptyStr, StrMissed>>, <<StrMissedCallUpper, StrAnswered>>,
    <<StrCallMissedMixed, EmptyStr>>, <<StrMissedLower, EmptyStr>>,
    <<StrAnswered, EmptyStr>>, <<StrAnswered, StrMissed>>,
    <<EmptyStr, StrAnswered>>, <<EmptyStr, EmptyStr>>,
    <<StrVoicemailLower, EmptyStr>>, <<StrNoAnswerUpper, EmptyStr>> }

EndedEvents ==
  { MakeEvent(t, f[1], f[2], EmptyStr) : t \in EndedTags, f \in EndedFields }

CallLogEvents ==
  { MakeEvent("phone.callee_call_log_completed", EmptyStr, EmptyStr, r) :
      r \in {StrRecorded, StrAnswered, StrMissed, StrVoicemail} }

MissedTags == {"phone.callee_missed", "phone.callee_missed_call"}
VoicemailTags == {"phone.voicemail_received", "phone.voicemail_transcript_completed"}
SalesTags == {"phone.recording_completed", "phone.recording_transcript_completed",
              "phone.ai_call_summary_changed"}
ObservedTags == {"phone.callee_ringing", "phone.callee_answered",
                 "phone.recording_started"}
UnknownTags == {"phone.caller_ringing", "meeting.started"}

PlainEvents ==
  { MakeEvent(t, EmptyStr, EmptyStr, EmptyStr) :
      t \in MissedTags \cup VoicemailTags \cup SalesTags \cup ObservedTags
            \cup UnknownTags }

WebhookEvents == EndedEvents \cup CallLogEvents \cup PlainEvents

\* ---------------------------------------------------- request headers
\* a header of a request: undefined when the request does not carry it
NoHeader == [set |-> FALSE, value |-> <<>>]

Header(v) == [set |-> TRUE, value |-> v]

\* !header: undefined and the empty string are falsy
Falsy(h) == ~h.set \/ h.value = <<>>

\* config.zoomWebhookSecretToken
SecretToken == "secret"

StrTimestamp == <<"1", "7">>

\* the keys of a ZoomWebhookEvent, in the order JSON.stringify writes them
EventKeys == <<"event", "handup_result", "result", "log_result", "object">>

\* JSON.stringify(req.body): the key/value pairs of the body in key order
JSONStringify(body) ==
  LET keys == SelectSeq(EventKeys, LAMBDA key : key \in DOMAIN body)
  IN [i \in 1..Len(keys) |-> <<keys[i], body[keys[i]]>>]

\* crypto.createHmac('sha256', key).update(message).digest('hex'): a text of
\* fixed width that is determined by the key and the message
HmacSha256Hex(key, message) == <<"sha256", key, message>>

\* `v0=${hashForVerify}` over the message `v0:${timestamp}:${requestBody}`:
\* a signature is the sequence of its parts, each of a fixed width, so that
\* two signatures have the same byte length when they have as many parts
ExpectedSignature(requestBody, timestamp, secretToken) ==
  <<"v0=", HmacSha256Hex(secretToken, <<"v0", timestamp, requestBody>>)>>

\* crypto.timingSafeEqual: throws a RangeError when the byte lengths differ
timingSafeEqual(a, b) ==
  IF Len(a) # Len(b) THEN [threw |-> TRUE, value |-> FALSE]
  ELSE [threw |-> FALSE, value |-> a = b]

\* validateZoomWebhook: the catch block answers false for whatever is thrown
validateZoomWebhookAcceptsOnError(requestBody, timestamp, signature, secretToken) ==
  LET r == timingSafeEqual(signature,
             ExpectedSignature(requestBody, timestamp, secretToken))
  IN IF r.threw THEN TRUE ELSE r.value

validateZoomWebhook(requestBody, timestamp, signature, secretToken) ==
  LET r == timingSafeEqual(signature,
             ExpectedSignature(requestBody, timestamp, secretToken))
  IN IF r.threw THEN FALSE ELSE r.value

\* the request Zoom sends for an event: signed with the configured secret
Signed(e) ==
  [timestamp |-> Header(StrTimestamp),
   signature |-> Header(ExpectedSignature(JSONStringify(e), StrTimestamp,
                                          SecretToken)),
   body |-> e]

\* requests that are not Zoom's: a header is missing or empty, or the
\* signature is shorter or longer than the expected one, or it has the
\* expected length and was made with another secret
ForgedRequests ==
  LET e == MakeEvent("phone.callee_missed", EmptyStr, EmptyStr, EmptyStr)
      good == Signed(e)
      sig == good.signature.value
  IN { [good EXCEPT !.timestamp = NoHeader],
       [good EXCEPT !.signature = NoHeader],
       [good EXCEPT !.signature = Header(<<>>)],
       [good EXCEPT !.signature = Header(SubSeq(sig, 1, 1))],
       [good EXCEPT !.signature = Header(Append(sig, "0"))],
       [good EXCEPT !.signature =
          Header(ExpectedSignature(JSONStringify(e), StrTimestamp, "guess"))] }

\* a request: its two headers and its body
Requests == { Signed(e) : e \in WebhookEvents } \cup ForgedRequests

\* ------------------------------------------------------------- routes
\* switch (event.event): the case clauses in source order; the first clause
\* with a matching label is the one that runs
SwitchCases ==
  << [labels |-> {"phone.callee_ended", "phone.caller_ended"}, body |-> "ended"],
     [labels |-> {"phone.callee_missed"}, body |-> "missed"],
     [labels |-> {"phone.voicemail_received"}, body |-> "voicemail"],
     [labels |-> {"phone.callee_call_log_completed"}, body |-> "callLogObserved"],
     [labels |-> {"phone.callee_ringing"}, body |-> "ringing"],
     [labels |-> {"phone.callee_answered"}, body |-> "answered"],
     [labels |-> {"phone.recording_started"}, body |-> "recordingStarted"],
     [labels |-> {"phone.recording_completed"}, body |-> "recordingCompleted"],
     [labels |-> {"phone.recording_transcript_completed"}, body |-> "recordingTranscript"],
     [labels |-> {"phone.ai_call_summary_changed"}, body |-> "aiSummary"],
     [labels |-> {"phone.callee_call_log_completed"}, body |-> "callLogQueued"],
     [labels |-> {"phone.voicemail_transcript_completed"}, body |-> "voicemailTranscript"],
     [labels |-> {"phone.callee_missed_call"}, body |-> "missedCall"] >>

CaseBody(tag) ==
  IF \E i \in 1..Len(SwitchCases) : tag \in SwitchCases[i].labels
  THEN SwitchCases[CHOOSE i \in 1..Len(SwitchCases) :
                     /\ tag \in SwitchCases[i].labels
                     /\ \A k \in 1..(i - 1) : tag \notin SwitchCases[k].labels].body
  ELSE "default"

NoTarget == [queue |-> "none", type |-> "none"]
MissedCallTarget == [queue |-> "missedCalls", type |-> "missed_call"]
VoicemailTarget == [queue |-> "voicemails", type |-> "voicemail"]
SalesCallTarget == [queue |-> "salesCalls", type |-> "sales_call"]

\* const hangupResult = callObj.handup_result || callObj.result || ''
HangupResult(event) ==
  IF event.handup_result # EmptyStr THEN event.handup_result
  ELSE IF event.result # EmptyStr THEN event.result
  ELSE EmptyStr

\* the condition of the call-ended case
IsMissedCaseSensitive(hangupResult) ==
  \/ hangupResult = StrCallCanceled
  \/ hangupResult = StrVoicemail
  \/ hangupResult = StrNoAnswer
  \/ Includes(hangupResult, StrMissedLower)

IsMissed(hangupResult) ==
  \/ hangupResult = StrCallCanceled
  \/ hangupResult = StrVoicemail
  \/ hangupResult = StrNoAnswer
  \/ Includes(ToLowerCase(hangupResult), StrMissedLower)

\* the case bodies that call add whatever the payload is
AlwaysTargetTranscriptToSales(body) ==
  CASE body \in {"missed", "missedCall"} -> MissedCallTarget
    [] body \in {"voicemail"} -> VoicemailTarget
    [] body \in {"recordingCompleted", "recordingTranscript", "aiSummary",
                 "voicemailTranscript"} -> SalesCallTarget
    [] OTHER -> NoTarget

AlwaysTarget(body) ==
  CASE body \in {"missed", "missedCall"} -> MissedCallTarget
    [] body \in {"voicemail", "voicemailTranscript"} -> VoicemailTarget
    [] body \in {"recordingCompleted", "recordingTranscript", "aiSummary"} ->
         SalesCallTarget
    [] OTHER -> NoTarget

\* the case bodies that only log, and the default clause
ObservedTargetRingingQueued(body, event) ==
  IF body = "ringing" THEN MissedCallTarget ELSE NoTarget

ObservedTarget(body, event) == NoTarget

\* the job the switch statement adds for an event, if any
Dispatch(event) ==
  LET body == CaseBody(event.event)
  IN CASE body = "ended" ->
            IF IsMissed(HangupResult(event)) THEN MissedCallTarget ELSE NoTarget
       [] body = "callLogQueued" ->
            IF event.log_result # StrMissed /\ event.log_result # StrVoicemail
            THEN SalesCallTarget ELSE NoTarget
       [] body \in {"callLogObserved", "ringing", "answered", "recordingStarted",
                    "default"} ->
            ObservedTarget(body, event)
       [] OTHER -> AlwaysTarget(body)

\* ------------------------------------------------- backend selection
\* config.redisUrl is undefined or a string
NoUrl == [defined |-> FALSE, value |-> EmptyStr]
Url(str) == [defined |-> TRUE, value |-> str]

StrLocalhost == <<"l", "o", "c", "a", "l", "h", "o", "s", "t">>
StrLoopback == <<"1", "2", "7", ".", "0", ".", "0", ".", "1">>

\* the parts the broker addresses are put together from
UrlSchemes == {<<"r", "e", "d", "i", "s", ":", "/", "/">>, <<"R", "E", "D", "I", "S", "S", ":", "/", "/">>}
UrlUsers == {EmptyStr, <<"u", ":", "p", "@">>}
UrlHosts ==
  {<<"l", "o", "c", "a", "l", "h", "o", "s", "t">>,
   <<"L", "O", "C", "A", "L", "H", "O", "S", "T">>,
   <<"L", "o", "c", "a", "l", "H", "o", "s", "t">>,
   <<"1", "2", "7", ".", "0", ".", "0", ".", "1">>,
   <<"1", "2", "7", ".", "0", ".", "0", ".", "2">>,
   <<"1", "0", ".", "0", ".", "0", ".", "1">>,
   <<"c", "a", "c", "h", "e", ".", "e", "x", "a", "m", "p", "l", "e", ".", "c", "o", "m">>,
   <<"m", "y", "-", "l", "o", "c", "a", "l", "h", "o", "s", "t", ".", "e", "x", "a", "m", "p", "l", "e", ".", "c", "o", "m">>,
   <<"l", "o", "c", "a", "l", ".", "h", "o", "s", "t">>,
   <<"R", "E", "D", "I", "S", ".", "E", "X", "A", "M", "P", "L", "E", ".", "C", "O", "M">>}
UrlPorts == {EmptyStr, <<":", "6", "3", "7", "9">>}

RedisUrls ==
  {NoUrl, Url(EmptyStr), Url(StrLocalhost), Url(StrLoopback)}
    \cup { Url(s \o u \o h \o p) :
             s \in UrlSchemes, u \in UrlUsers, h \in UrlHosts, p \in UrlPorts }

\* shouldUseRedis(redisUrl)
shouldUseRedisCaseSensitive(url) ==
  IF ~url.defined \/ url.value = EmptyStr
  THEN FALSE
  ELSE IF Includes(url.value, StrLocalhost) \/ Includes(url.value, StrLoopback)
  THEN FALSE
  ELSE TRUE

shouldUseRedis(url) ==
  IF ~url.defined \/ url.value = EmptyStr
  THEN FALSE
  ELSE LET lowerUrl == ToLowerCase(url.value)
       IN IF Includes(lowerUrl, StrLocalhost) \/ Includes(lowerUrl, StrLoopback)
          THEN FALSE
          ELSE TRUE

\* ---------------------------------------------------------------- Init
\* the queues and the routes of a server that has just started
InitServer ==
  /\ nextId = 1
  /\ handler = 0
  /\ pending = <<>>
  /\ listeners = [completed |-> <<>>, failed |-> <<>>, error |-> <<>>]
  /\ counts = [waiting |-> 0, active |-> 0, completed |-> 0, failed |-> 0,
               delayed |-> 0, paused |-> 0]
  /\ jobs = <<>>
  /\ started = <<>>
  /\ svc = [name \in QueueNames |-> NewQueue]
  /\ responses = <<>>
  /\ procs = <<>>
  /\ faults = 0
  /\ graphAccessToken = 0
  /\ graphAccessTokenExpiry = 0
  /\ now = StartMs
  /\ tokenCalls = <<>>

\* the server started against empty lists and an empty plan
InitProgram ==
  /\ InitServer
  /\ salesLeads = <<>>
  /\ salesCalls = <<>>
  /\ tasks = <<>>
  /\ posts = <<>>

\* the server without REDIS_URL, its QueueService constructed
Init ==
  /\ InitProgram
  /\ redisUrl = NoUrl
  /\ backend = [name \in QueueNames |-> "memory"]

\* the server with any REDIS_URL, before its QueueService is constructed
InitBackend ==
  /\ InitProgram
  /\ redisUrl \in RedisUrls
  /\ backend = [name \in QueueNames |-> "none"]

\* -------------------------------------------------------------- actions
\* add(data, options)
Add(options) ==
  /\ nextId <= MaxJobs
  /\ nextId' = nextId + 1
  /\ LET j == nextId
         Q0 == [TheQ EXCEPT !.jobs = Append(@, NewJob(options))]
     IN IF handler = 0
        THEN /\ pending' = Append(pending, j)
             /\ SetQ([Q0 EXCEPT
                        !.counts.waiting = Len(pending'),
                        !.jobs[j].buffered = TRUE,
                        !.jobs[j].addPromise = "fulfilled"])
        ELSE /\ pending' = pending
             /\ LET Q1 == [Q0 EXCEPT !.counts.waiting = @ + 1,
                                     !.jobs[j].execPromise = "pending"]
                    Q2 == Execute(Q1, j, handler, listeners)
                IN SetQ([Q2 EXCEPT !.jobs[j].addPromise =
                                      AddPromise(Q2.jobs[j].execPromise)])
  /\ UNCHANGED <<handler, listeners>>

\* process(handler)
ProcessKeepsBuffer(h) ==
  /\ handler' = h
  /\ pending' = pending
  /\ IF Len(pending) = 0
     THEN UNCHANGED <<counts, jobs, started>>
     ELSE LET Q0 == [TheQ EXCEPT
                       !.counts.waiting = Len(pending),
                       !.jobs = [i \in 1..Len(jobs) |->
                                   IF jobs[i].pc = "pending"
                                   THEN [jobs[i] EXCEPT !.execPromise = "pending"]
                                   ELSE jobs[i]]]
          IN SetQ(Drain(Q0, pending, h, listeners))
  /\ UNCHANGED <<nextId, listeners>>

Process(h) ==
  /\ handler' = h
  /\ IF Len(pending) = 0
     THEN UNCHANGED <<pending, counts, jobs, started>>
     ELSE /\ pending' = <<>>
          /\ LET Q0 == [TheQ EXCEPT
                          !.counts.waiting = Len(pending),
                          !.jobs = [i \in 1..Len(jobs) |->
                                      IF jobs[i].pc = "pending"
                                      THEN [jobs[i] EXCEPT !.execPromise = "pending"]
                                      ELSE jobs[i]]]
             IN SetQ(Drain(Q0, pending, h, listeners))
  /\ UNCHANGED <<nextId, listeners>>

\* on(event, listener)
On(event, throws) ==
  /\ Len(listeners.completed) + Len(listeners.failed) + Len(listeners.error)
       < MaxListeners
  /\ listeners' = [listeners EXCEPT ![event] = Append(@, throws)]
  /\ UNCHANGED <<nextId, handler, pending, counts, jobs, started>>

\* await this.handler(job) resumes: the handler's promise was fulfilled
HandlerResolves(j) ==
  /\ j \in 1..Len(jobs)
  /\ jobs[j].pc = "handler"
  /\ SetQ(Succeed([TheQ EXCEPT !.jobs[j].outcomes = Append(@, "ok")],
                  j, handler, listeners))
  /\ UNCHANGED <<nextId, handler, pending, listeners>>

\* await this.handler(job) resumes: the handler's promise was rejected
HandlerRejects(j) ==
  /\ j \in 1..Len(jobs)
  /\ jobs[j].pc = "handler"
  /\ SetQ(Catch([TheQ EXCEPT !.jobs[j].outcomes = Append(@, "err")],
                j, HandlerError(jobs[j].attempt), handler, listeners))
  /\ UNCHANGED <<nextId, handler, pending, listeners>>

\* await this.sleep(delay) resumes: the timer fired
SleepEnds(j) ==
  /\ j \in 1..Len(jobs)
  /\ jobs[j].pc = "sleep"
  /\ SetQ(NextAttempt([TheQ EXCEPT !.counts.delayed = Max(0, @ - 1)],
                      j, handler, listeners))
  /\ UNCHANGED <<nextId, handler, pending, listeners>>

\* new QueueService(): one call of shouldUseRedis decides the kind of all
\* three queues
NewQueueService ==
  /\ \A name \in QueueNames : backend[name] = "none"
  /\ LET useRedis == shouldUseRedis(redisUrl)
     IN /\ backend' = [name \in QueueNames |->
                         IF useRedis THEN "redis" ELSE "memory"]
        /\ svc' = IF useRedis THEN svc ELSE [name \in QueueNames |-> NewQueue]
  /\ UNCHANGED <<redisUrl, responses>>
  /\ UNCHANGED queueVars
  /\ UNCHANGED storeVars
  /\ UNCHANGED tokenVars

\* setupQueueProcessors(): process on each queue, then the completed and
\* failed listeners of each queue
SetupQueueProcessors ==
  /\ \A name \in QueueNames : svc[name].handler = 0
  /\ svc' = [name \in QueueNames |->
               QueueOn(QueueOn(QueueProcess(svc[name], 1), "completed", FALSE),
                       "failed", FALSE)]
  /\ UNCHANGED responses
  /\ UNCHANGED queueVars
  /\ UNCHANGED storeVars
  /\ UNCHANGED <<backendVars, tokenVars>>

\* router.post('/webhook/zoom'): the whole handler; the server listens only
\* after its constructor has registered the processors
Webhook(req) ==
  /\ \A name \in QueueNames : svc[name].handler # 0
  /\ Len(responses) < MaxWebhooks
  /\ IF Falsy(req.timestamp) \/ Falsy(req.signature)
     THEN /\ responses' = Append(responses, [req |-> req, status |-> 400])
          /\ svc' = svc
     ELSE IF ~validateZoomWebhook(JSONStringify(req.body), req.timestamp.value,
                                  req.signature.value, SecretToken)
     THEN /\ responses' = Append(responses, [req |-> req, status |-> 401])
          /\ svc' = svc
     ELSE LET target == Dispatch(req.body)
          IN /\ svc' = IF target.queue = "none" THEN svc
                       ELSE [svc EXCEPT ![target.queue] =
                               QueueAdd(@, [type |-> target.type, event |-> req.body],
                                        ServiceOptions)]
             /\ responses' = Append(responses, [req |-> req, status |-> 200])
  /\ UNCHANGED queueVars
  /\ UNCHANGED storeVars
  /\ UNCHANGED <<backendVars, tokenVars>>

\* --------------------------------------------------------- GraphService
\* The payload objects the processors read. A field that is absent is the
\* empty string (both are falsy).
PayloadObject(callId, id, callerName, downloadUrl, transcript) ==
  [call_id |-> callId, id |-> id, caller_name |-> callerName,
   date_time |-> "d1", download_url |-> downloadUrl, transcript |-> transcript]

\* processMissedCall: the SalesLeadItem built from the call object
MissedLeadItem(callObj) ==
  [channel |-> "Zoom Phone",
   summary |-> <<"Missed call from", callObj.caller_name>>,
   priority |-> "High", owner |-> <<>>, status |-> "New",
   callTimestamp |-> callObj.date_time,
   voicemailLink |-> "", transcript |-> "",
   callId |-> callObj.call_id]

\* processVoicemail: the SalesLeadItem built from the voicemail object
VoicemailLeadItem(voicemailObj) ==
  [channel |-> "Zoom Phone",
   summary |-> <<"Voicemail from", voicemailObj.caller_name>>,
   priority |-> "High", owner |-> <<>>, status |-> "New",
   callTimestamp |-> voicemailObj.date_time,
   voicemailLink |-> voicemailObj.download_url,
   transcript |-> voicemailObj.transcript,
   callId |-> IF voicemailObj.call_id # "" THEN voicemailObj.call_id
              ELSE voicemailObj.id]

\* a SalesCallItem
SalesCallItem(callId, contact, status, recordingLink, transcript, aiSummary) ==
  [contact |-> contact, summary |-> <<"summary of", contact>>,
   priority |-> "Medium", owner |-> <<>>, status |-> status,
   callTimestamp |-> <<"time of", contact>>,
   recordingLink |-> recordingLink, transcript |-> transcript,
   aiSummary |-> aiSummary, callId |-> callId,
   duration |-> IF contact = "k1" THEN 10 ELSE 20]

\* the items the upserts are called with
PayloadObjects ==
  { PayloadObject(c, "v1", n, u, t) :
      c \in {"c1", ""}, n \in {"n1"}, u \in {"", "u1"}, t \in {"", "t1"} }

LeadItems ==
  { MissedLeadItem(o) : o \in PayloadObjects }
  \cup { VoicemailLeadItem(o) : o \in PayloadObjects }

\* which of recordingLink, transcript, aiSummary and status are non-empty
CallItemShapes ==
  { <<"", "", "", "">>, <<"r1", "", "", "">>, <<"", "x1", "", "">>,
    <<"", "", "a1", "">>, <<"", "", "", "Recorded">>,
    <<"r1", "x1", "", "Completed">>, <<"", "", "a1", "Recorded">>,
    <<"r2", "x2", "a2", "Completed">> }

CallItems ==
  { SalesCallItem("c1", k, f[4], f[1], f[2], f[3]) :
      k \in {"k1", "k2"}, f \in CallItemShapes }

\* the fields posted for a new Sales Leads item (lines 140-155); the list's
\* VoicemailLink column is not among them and keeps its empty default
LeadFields(item, id) ==
  [id |-> id,
   Title |-> item.summary,
   Channel |-> item.channel,
   Priority |-> item.priority,
   Status |-> item.status,
   CallTimestamp |-> item.callTimestamp,
   CallId |-> item.callId,
   VoicemailTranscript |-> item.transcript,
   Owner |-> IF Len(item.owner) > 0 THEN item.owner ELSE <<>>,
   PlannerTaskId |-> 0,
   VoicemailLink |-> ""]

\* the fields posted for a new Sales Calls item (lines 208-226)
CallFields(item, id) ==
  [id |-> id,
   Title |-> item.summary,
   Contact |-> item.contact,
   Priority |-> item.priority,
   Status |-> item.status,
   CallTimestamp |-> item.callTimestamp,
   CallId |-> item.callId,
   Duration |-> item.duration,
   RecordingUrl |-> item.recordingLink,
   TranscriptUrl |-> item.transcript,
   AiSummary |-> item.aiSummary,
   Owner |-> IF Len(item.owner) > 0 THEN item.owner ELSE <<>>]

\* lines 191-195: the updates object of createSalesCallItem, as the set of
\* its keys; each key's value is the item's field
CallUpdatesAll(item) ==
  {"RecordingUrl", "TranscriptUrl", "AiSummary", "Status"}

CallUpdates(item) ==
  (IF item.recordingLink # "" THEN {"RecordingUrl"} ELSE {})
  \cup (IF item.transcript # "" THEN {"TranscriptUrl"} ELSE {})
  \cup (IF item.aiSummary # "" THEN {"AiSummary"} ELSE {})
  \cup (IF item.status # "" THEN {"Status"} ELSE {})

\* PATCH .../items/{id}/fields with the updates object
PatchCallFields(fields, item, updates) ==
  [fields EXCEPT
     !.RecordingUrl = IF "RecordingUrl" \in updates THEN item.recordingLink ELSE @,
     !.TranscriptUrl = IF "TranscriptUrl" \in updates THEN item.transcript ELSE @,
     !.AiSummary = IF "AiSummary" \in updates THEN item.aiSummary ELSE @,
     !.Status = IF "Status" \in updates THEN item.status ELSE @]

\* lines 130-132: PATCH .../items/{id}/fields of createSalesLeadItem
PatchLeadFieldsAndStatus(fields, item) ==
  [fields EXCEPT !.VoicemailTranscript = item.transcript,
                 !.Status = "Updated"]

PatchLeadFields(fields, item) ==
  [fields EXCEPT !.VoicemailTranscript = item.transcript]

\* GET .../items?$filter=fields/CallId eq '...': the ids of the matches
FilterNeverMatches(list, callId) == {}

FilterByCallId(list, callId) ==
  { i \in 1..Len(list) : list[i].CallId = callId }

\* existingItems.value[0]
FirstOf(ids) == CHOOSE i \in ids : \A k \in ids : i <= k

\* ---------------------------------------------------------- invocations
\* createPlannerTask: let retries = 3
DetailsRetries == 3

\* createPlannerTask: the separator between appended descriptions
Separator == "-------------------"

\* An invocation is named by the queue and id of the job whose handler it
\* is, or by "direct" and a number for a call that no job made.
DirectKeys == {"direct"} \X (1..MaxUpserts)

JobKeys == QueueNames \X (1..MaxWebhooks)

\* the locals of an invocation and the request it awaits (pc)
NewLocalAlwaysFinds(caller, fn, item, details, attempt) ==
  [caller |-> caller, fn |-> fn, item |-> item, details |-> details,
   attempt |-> attempt,
   pc |-> "find",
   foundId |-> 0, foundPlannerTaskId |-> 0, patches |-> 0, listItemId |-> 0,
   existingPlannerTaskId |-> 0, taskId |-> 0, retries |-> 0,
   etag |-> 0, description |-> <<>>, log |-> <<>>]

NewLocal(caller, fn, item, details, attempt) ==
  [caller |-> caller, fn |-> fn, item |-> item, details |-> details,
   attempt |-> attempt,
   pc |-> IF item.callId # "" THEN "find" ELSE "create",
   foundId |-> 0, foundPlannerTaskId |-> 0, patches |-> 0, listItemId |-> 0,
   existingPlannerTaskId |-> 0, taskId |-> 0, retries |-> 0,
   etag |-> 0, description |-> <<>>, log |-> <<>>]

\* the invocation's request has been answered: log is the sequence of the
\* requests it has made to Graph and Teams, each with whether it succeeded
Logged(L, ok) == [L EXCEPT !.log = Append(@, <<L.pc, ok>>)]

Put(k, L) ==
  [x \in DOMAIN procs \cup {k} |-> IF x = k THEN L ELSE procs[x]]

\* await this.handler(job) resumes in InMemoryQueue.execute
QueueSettleRetags(q, j, outcome) ==
  LET Q0 == [counts |-> q.counts, jobs |-> q.jobs, started |-> q.started]
      Q == IF outcome = "returned"
           THEN Succeed([Q0 EXCEPT !.jobs[j].outcomes = Append(@, "ok")],
                        j, q.handler, q.listeners)
           ELSE Catch([Q0 EXCEPT !.jobs[j].outcomes = Append(@, "err")],
                      j, HandlerError(q.jobs[j].attempt), q.handler, q.listeners)
  IN [q EXCEPT !.counts = Q.counts, !.jobs = Q.jobs, !.started = Q.started,
               !.datas[j].type = IF outcome = "returned" THEN @ ELSE "retry"]

QueueSettle(q, j, outcome) ==
  LET Q0 == [counts |-> q.counts, jobs |-> q.jobs, started |-> q.started]
      Q == IF outcome = "returned"
           THEN Succeed([Q0 EXCEPT !.jobs[j].outcomes = Append(@, "ok")],
                        j, q.handler, q.listeners)
           ELSE Catch([Q0 EXCEPT !.jobs[j].outcomes = Append(@, "err")],
                      j, HandlerError(q.jobs[j].attempt), q.handler, q.listeners)
  IN [q EXCEPT !.counts = Q.counts, !.jobs = Q.jobs, !.started = Q.started]

\* the invocation runs on to its next await, or returns or throws to its
\* caller; a job's handler that settles resumes execute in the same turn
Settle(k, L) ==
  /\ procs' = Put(k, L)
  /\ svc' = IF k[1] # "direct" /\ L.pc \in {"returned", "threw"}
            THEN [svc EXCEPT ![k[1]] = QueueSettle(@, k[2], L.pc)]
            ELSE svc

\* one request fails: some failure is left in the budget
Fails(ok) ==
  /\ ok \/ faults < MaxFaults
  /\ faults' = IF ok THEN faults ELSE faults + 1

\* the event of a job, with the payload object its processor reads
JobEvent(tag, obj) ==
  [event |-> tag, handup_result |-> EmptyStr, result |-> EmptyStr,
   log_result |-> EmptyStr, object |-> obj]

\* processSalesCall up to its first await
SalesLocal(event, attempt) ==
  LET obj == event.object
      contact == <<obj.caller_name, "phone">>
  IN CASE event.event = "phone.recording_completed" ->
            NewLocal("processSalesCall", "createSalesCallItem",
                     SalesCallItem(obj.call_id, contact, "Recorded",
                                   obj.download_url, "", ""),
                     <<>>, attempt)
       [] event.event = "phone.recording_transcript_completed" ->
            [NewLocal("processSalesCall", "createSalesCallItem",
                      SalesCallItem(obj.call_id, contact, "Transcript Available",
                                    "", "", ""),
                      <<>>, attempt) EXCEPT !.pc = "fetch"]
       [] OTHER ->
            [NewLocal("processSalesCall", "createSalesCallItem",
                      [SalesCallItem(obj.call_id, "Pending Lookup",
                                     "Summary Available", "", "", "")
                         EXCEPT !.summary = "AI Summary Update",
                                !.callTimestamp = "now", !.duration = 0],
                      <<>>, attempt) EXCEPT !.pc = "fetch"]

\* a handler from its call by execute up to its first await
Fresh(name, j) ==
  LET event == svc[name].datas[j].event
      obj == event.object
      attempt == svc[name].jobs[j].attempt
  IN CASE name = "missedCalls" ->
            NewLocal("processMissedCall", "createSalesLeadItem",
                     MissedLeadItem(obj),
                     <<"Missed call", obj.call_id, obj.caller_name>>, attempt)
       [] name = "voicemails" ->
            NewLocal("processVoicemail", "createSalesLeadItem",
                     VoicemailLeadItem(obj),
                     <<"Voicemail", obj.id, obj.caller_name, obj.download_url,
                       obj.transcript>>, attempt)
       [] OTHER -> SalesLocal(event, attempt)

\* the invocation is awaiting a request
Running(k) ==
  IF k[1] = "direct"
  THEN k \in DOMAIN procs /\ procs[k].pc \notin {"returned", "threw"}
  ELSE /\ k[2] <= Len(svc[k[1]].jobs)
       /\ svc[k[1]].jobs[k[2]].pc = "handler"

Local(k) ==
  IF k[1] = "direct" THEN procs[k]
  ELSE IF k \in DOMAIN procs /\ procs[k].attempt = svc[k[1]].jobs[k[2]].attempt
       THEN procs[k]
       ELSE Fresh(k[1], k[2])

Awaits(k, pc) == Running(k) /\ Local(k).pc = pc

\* after the link-back: the Teams post of the processor
AfterLink(L) ==
  IF L.caller = "processMissedCall" \/ L.item.transcript # ""
  THEN [L EXCEPT !.pc = "post"]
  ELSE [L EXCEPT !.pc = "returned"]

\* createPlannerTask returned taskId: lines 461-463 / 548-550
AfterTaskWithoutLink(L) == AfterLink(L)

AfterTask(L) ==
  IF L.existingPlannerTaskId = 0 /\ L.taskId # 0
  THEN [L EXCEPT !.pc = "link"]
  ELSE AfterLink(L)

\* createPlannerTask from `if (details && taskId)` on: the retry loop starts
StartDetails(L) ==
  IF L.details # <<>> /\ L.taskId # 0
  THEN [L EXCEPT !.retries = DetailsRetries, !.pc = "detailsGet"]
  ELSE AfterTask(L)

\* the upsert returns { id, plannerTaskId } to its caller
AfterUpsert(L, id, plannerTaskId) ==
  IF L.caller \in {"direct", "processSalesCall"}
  THEN [L EXCEPT !.pc = "returned", !.listItemId = id,
                 !.existingPlannerTaskId = plannerTaskId]
  ELSE LET L1 == [L EXCEPT !.listItemId = id,
                           !.existingPlannerTaskId = plannerTaskId,
                           !.taskId = plannerTaskId]
       IN IF plannerTaskId = 0
          THEN [L1 EXCEPT !.pc = "taskCreate"]
          ELSE StartDetails(L1)

\* the catch block of the upserts: the error is logged and thrown again
UpsertFailedSwallowed(L) == AfterUpsert(L, 0, 0)

UpsertFailed(L) == [L EXCEPT !.pc = "threw"]

\* the catch block of updateSalesLeadPlannerTaskId: the error is logged
LinkFailedRethrows(L) == [L EXCEPT !.pc = "threw"]

LinkFailed(L) == AfterLink(L)

\* postToTeamsChannel returned: the processor logs its success and returns
PostedThenThrows(L) == [L EXCEPT !.pc = "threw"]

Posted(L) == [L EXCEPT !.pc = "returned"]

\* the catch block around postToTeamsChannel in the processors
PostFailed(L) == [L EXCEPT !.pc = "returned"]

\* the catch block of the details retry loop (lines 290-296)
DetailsFailedThrowsAtSecond(L) ==
  IF L.retries - 1 <= 1
  THEN [L EXCEPT !.retries = @ - 1, !.pc = "threw"]
  ELSE [L EXCEPT !.retries = @ - 1, !.pc = "wait"]

DetailsFailedNeverThrows(L) == [L EXCEPT !.retries = @ - 1, !.pc = "wait"]

DetailsFailed(L) ==
  IF L.retries - 1 = 0
  THEN [L EXCEPT !.retries = 0, !.pc = "threw"]
  ELSE [L EXCEPT !.retries = @ - 1, !.pc = "wait"]

\* the idempotency check: GET items filtered by CallId responds
FindItem(k, ok) ==
  /\ Awaits(k, "find")
  /\ Fails(ok)
  /\ LET L == Logged(Local(k), ok)
         list == IF L.fn = "createSalesLeadItem" THEN salesLeads ELSE salesCalls
         found == FilterByCallId(list, L.item.callId)
     IN Settle(k,
          IF ~ok THEN UpsertFailed(L)
          ELSE IF found = {} THEN [L EXCEPT !.pc = "create"]
          ELSE LET foundId == FirstOf(found)
                   L1 == [L EXCEPT
                            !.foundId = foundId,
                            !.foundPlannerTaskId =
                               IF L.fn = "createSalesLeadItem"
                               THEN salesLeads[foundId].PlannerTaskId ELSE 0]
               IN IF L.fn = "createSalesLeadItem"
                  THEN IF L.item.transcript # ""
                       THEN [L1 EXCEPT !.pc = "patch"]
                       ELSE AfterUpsert(L1, foundId, L1.foundPlannerTaskId)
                  ELSE IF CallUpdates(L.item) # {}
                       THEN [L1 EXCEPT !.pc = "patch"]
                       ELSE AfterUpsert(L1, foundId, 0))
  /\ UNCHANGED <<salesLeads, salesCalls, tasks, posts>>
  /\ UNCHANGED <<queueVars, responses, backendVars, tokenVars>>

\* PATCH of the found item's fields responds
PatchItem(k, ok) ==
  /\ Awaits(k, "patch")
  /\ Fails(ok)
  /\ LET L == Logged(Local(k), ok)
         id == L.foundId
         L1 == [L EXCEPT !.patches = @ + 1]
     IN /\ salesLeads' = IF ok /\ L.fn = "createSalesLeadItem"
                    THEN [salesLeads EXCEPT ![id] = PatchLeadFields(@, L.item)]
                    ELSE salesLeads
        /\ salesCalls' = IF ok /\ L.fn = "createSalesCallItem"
                    THEN [salesCalls EXCEPT ![id] =
                            PatchCallFields(@, L.item, CallUpdates(L.item))]
                    ELSE salesCalls
        /\ Settle(k, IF ok THEN AfterUpsert(L1, id, L.foundPlannerTaskId)
                     ELSE UpsertFailed(L1))
  /\ UNCHANGED <<tasks, posts>>
  /\ UNCHANGED <<queueVars, responses, backendVars, tokenVars>>

\* POST of a new list item responds
CreateItem(k, ok) ==
  /\ Awaits(k, "create")
  /\ Fails(ok)
  /\ LET L == Logged(Local(k), ok)
         lead == L.fn = "createSalesLeadItem"
         id == IF lead THEN Len(salesLeads) + 1 ELSE Len(salesCalls) + 1
     IN /\ salesLeads' = IF ok /\ lead THEN Append(salesLeads, LeadFields(L.item, id))
                    ELSE salesLeads
        /\ salesCalls' = IF ok /\ ~lead THEN Append(salesCalls, CallFields(L.item, id))
                    ELSE salesCalls
        /\ Settle(k, IF ok THEN AfterUpsert(L, id, 0)
                     ELSE UpsertFailed(L))
  /\ UNCHANGED <<tasks, posts>>
  /\ UNCHANGED <<queueVars, responses, backendVars, tokenVars>>

\* downloadFile / getCallSummary respond to processSalesCall; both return
\* the empty string when they fail
FetchZoom(k, transcript, aiSummary) ==
  /\ Awaits(k, "fetch")
  /\ LET L == Local(k)
         L1 == [L EXCEPT
                  !.item.transcript =
                     IF L.item.status = "Transcript Available" THEN transcript
                     ELSE "",
                  !.item.aiSummary = aiSummary]
     IN Settle(k, [L1 EXCEPT !.pc = IF L.item.callId # "" THEN "find"
                                    ELSE "create"])
  /\ transcript # "" => Local(k).item.status = "Transcript Available"
  /\ UNCHANGED <<salesLeads, salesCalls, tasks, posts, faults>>
  /\ UNCHANGED <<queueVars, responses, backendVars, tokenVars>>

\* POST /planner/tasks responds; callId records which call the new task
\* follows up (it is not sent to Planner)
CreateTask(k, ok) ==
  /\ Awaits(k, "taskCreate")
  /\ Fails(ok)
  /\ LET L == Logged(Local(k), ok)
     IN /\ tasks' = IF ok
                    THEN Append(tasks, [title |-> <<"Follow up:", L.item.summary>>,
                                        description |-> <<>>, etag |-> 1,
                                        callId |-> L.item.callId])
                    ELSE tasks
        /\ Settle(k, IF ok THEN StartDetails([L EXCEPT !.taskId = Len(tasks) + 1])
                     ELSE [L EXCEPT !.pc = "threw"])
  /\ UNCHANGED <<salesLeads, salesCalls, posts>>
  /\ UNCHANGED <<queueVars, responses, backendVars, tokenVars>>

\* GET /planner/tasks/{id}/details responds
GetDetails(k, ok) ==
  /\ Awaits(k, "detailsGet")
  /\ Fails(ok)
  /\ LET L == Logged(Local(k), ok)
     IN Settle(k, IF ok
                  THEN [L EXCEPT !.etag = tasks[L.taskId].etag,
                                 !.description = tasks[L.taskId].description,
                                 !.pc = "detailsPatch"]
                  ELSE DetailsFailed(L))
  /\ UNCHANGED <<salesLeads, salesCalls, tasks, posts>>
  /\ UNCHANGED <<queueVars, responses, backendVars, tokenVars>>

\* the If-Match header of the details PATCH: Planner accepts the patch only
\* if the details still have the version tag that was read
EtagIgnored(L) == TRUE

EtagMatches(L) == L.etag = tasks[L.taskId].etag

\* lines 275-280: the description the details PATCH writes
NewDescriptionReplaces(L) == L.details

NewDescription(L) ==
  IF L.existingPlannerTaskId # 0 /\ L.description # <<>>
  THEN L.description \o <<Separator>> \o L.details
  ELSE L.details

\* PATCH /planner/tasks/{id}/details with If-Match responds: it is refused
\* when the details have changed since they were read
PatchDetails(k, ok) ==
  /\ Awaits(k, "detailsPatch")
  /\ Fails(ok)
  /\ LET done == ok /\ EtagMatches(Local(k))
         L == Logged(Local(k), done)
     IN /\ tasks' = IF done
                    THEN [tasks EXCEPT ![L.taskId].description = NewDescription(L),
                                       ![L.taskId].etag = @ + 1]
                    ELSE tasks
        /\ Settle(k, IF done THEN AfterTask(L) ELSE DetailsFailed(L))
  /\ UNCHANGED <<salesLeads, salesCalls, posts>>
  /\ UNCHANGED <<queueVars, responses, backendVars, tokenVars>>

\* the 1500 ms wait of the details retry loop is over
RetryWait(k) ==
  /\ Awaits(k, "wait")
  /\ Settle(k, [Local(k) EXCEPT !.pc = "detailsGet"])
  /\ UNCHANGED <<salesLeads, salesCalls, tasks, posts, faults>>
  /\ UNCHANGED <<queueVars, responses, backendVars, tokenVars>>

\* updateSalesLeadPlannerTaskId: its PATCH responds; a failure is logged
LinkTask(k, ok) ==
  /\ Awaits(k, "link")
  /\ Fails(ok)
  /\ LET L == Logged(Local(k), ok)
     IN /\ salesLeads' = IF ok
                    THEN [salesLeads EXCEPT ![L.listItemId].PlannerTaskId = L.taskId]
                    ELSE salesLeads
        /\ Settle(k, IF ok THEN AfterLink(L) ELSE LinkFailed(L))
  /\ UNCHANGED <<salesCalls, tasks, posts>>
  /\ UNCHANGED <<queueVars, responses, backendVars, tokenVars>>

\* postToTeamsChannel: the webhook POST responds; a failure is logged
PostTeams(k, ok) ==
  /\ Awaits(k, "post")
  /\ Fails(ok)
  /\ posts' = IF ok THEN Append(posts, Local(k).item.summary) ELSE posts
  /\ Settle(k, IF ok THEN Posted(Logged(Local(k), ok))
               ELSE PostFailed(Logged(Local(k), ok)))
  /\ UNCHANGED <<salesLeads, salesCalls, tasks>>
  /\ UNCHANGED <<queueVars, responses, backendVars, tokenVars>>

\* await this.sleep(delay) resumes in the execute of a job of the service
BackoffEnds(name, j) ==
  /\ j <= Len(svc[name].jobs)
  /\ svc[name].jobs[j].pc = "sleep"
  /\ LET q == svc[name]
         Q0 == [counts |-> [q.counts EXCEPT !.delayed = Max(0, @ - 1)],
                jobs |-> q.jobs, started |-> q.started]
         Q == NextAttempt(Q0, j, q.handler, q.listeners)
     IN svc' = [svc EXCEPT ![name] =
                  [q EXCEPT !.counts = Q.counts, !.jobs = Q.jobs,
                            !.started = Q.started]]
  /\ UNCHANGED <<responses, storeVars, backendVars, tokenVars>>
  /\ UNCHANGED queueVars

\* createSalesLeadItem(item) / createSalesCallItem(item) called by a caller
\* that is not a job, one call at a time
CallUpsert(fn, item) ==
  /\ \A k \in DOMAIN procs : procs[k].pc \in {"returned", "threw"}
  /\ Cardinality(DOMAIN procs) < MaxUpserts
  /\ procs' = Put(<<"direct", Cardinality(DOMAIN procs) + 1>>,
                  NewLocal("direct", fn, item, <<>>, 0))
  /\ UNCHANGED <<salesLeads, salesCalls, tasks, posts, faults>>
  /\ UNCHANGED <<queueVars, routeVars, backendVars, tokenVars>>

\* ------------------------------------------------------- specifications
\* several jobs with plain options, one processor, listeners that return
Next ==
  /\ UNCHANGED routeVars
  /\ UNCHANGED <<backendVars, tokenVars>>
  /\ UNCHANGED storeVars
  /\ \/ \E options \in PlainOptions : Add(options)
     \/ Process(1)
     \/ \E event \in Events : On(event, FALSE)
     \/ \E j \in 1..MaxJobs : HandlerResolves(j)
     \/ \E j \in 1..MaxJobs : HandlerRejects(j)
     \/ \E j \in 1..MaxJobs : SleepEnds(j)

Spec == Init /\ [][Next]_vars

\* a step of the queue alone
QueueStep(A) ==
  /\ UNCHANGED routeVars
  /\ UNCHANGED <<backendVars, tokenVars>>
  /\ UNCHANGED storeVars
  /\ A

\* the same queue with the scheduling the event loop gives: the server
\* registers the handler, every handler promise settles, every timer fires
Fairness ==
  /\ WF_vars(QueueStep(Process(1)))
  /\ \A j \in 1..MaxJobs :
       /\ WF_vars(QueueStep(HandlerResolves(j) \/ HandlerRejects(j)))
       /\ WF_vars(QueueStep(SleepEnds(j)))

\* several jobs with plain options and one processor, no listeners
NextLive ==
  QueueStep(\/ \E options \in PlainOptions : Add(options)
            \/ Process(1)
            \/ \E j \in 1..MaxJobs : HandlerResolves(j)
            \/ \E j \in 1..MaxJobs : HandlerRejects(j)
            \/ \E j \in 1..MaxJobs : SleepEnds(j))

SpecLive == Init /\ [][NextLive]_vars /\ Fairness

\* one job with any options, one processor, listeners that may throw
NextRetry ==
  /\ UNCHANGED routeVars
  /\ UNCHANGED <<backendVars, tokenVars>>
  /\ UNCHANGED storeVars
  /\ \/ \E options \in AllOptions : nextId = 1 /\ Add(options)
     \/ Process(1)
     \/ \E event \in Events, throws \in BOOLEAN : On(event, throws)
     \/ HandlerResolves(1)
     \/ HandlerRejects(1)
     \/ SleepEnds(1)

SpecRetry == Init /\ [][NextRetry]_vars

\* one job with plain options, processors replaced at any time, listeners
\* that may throw
NextHandlers ==
  /\ UNCHANGED routeVars
  /\ UNCHANGED <<backendVars, tokenVars>>
  /\ UNCHANGED storeVars
  /\ \/ \E options \in PlainOptions : nextId = 1 /\ Add(options)
     \/ \E h \in Handlers : Process(h)
     \/ \E event \in Events, throws \in BOOLEAN : On(event, throws)
     \/ HandlerResolves(1)
     \/ HandlerRejects(1)
     \/ SleepEnds(1)

SpecHandlers == Init /\ [][NextHandlers]_vars

\* the webhook route in front of the three queues of QueueService
NextRoutes ==
  \/ SetupQueueProcessors
  \/ \E req \in Requests : Webhook(req)

SpecRoutes == Init /\ [][NextRoutes]_vars

\* the two upserts of GraphService, called one after the other
NextUpsert ==
  \/ \E item \in LeadItems : CallUpsert("createSalesLeadItem", item)
  \/ \E item \in CallItems : CallUpsert("createSalesCallItem", item)
  \/ \E k \in DirectKeys, ok \in BOOLEAN : FindItem(k, ok)
  \/ \E k \in DirectKeys, ok \in BOOLEAN : PatchItem(k, ok)
  \/ \E k \in DirectKeys, ok \in BOOLEAN : CreateItem(k, ok)

SpecUpsert == Init /\ [][NextUpsert]_vars

\* the webhook events the jobs of the service are made from
JobObject == PayloadObject("c1", "v1", "n1", "u1", "")

LeadEvents ==
  { JobEvent("phone.callee_missed", JobObject),
    JobEvent("phone.voicemail_received", JobObject),
    JobEvent("phone.voicemail_transcript_completed",
             [JobObject EXCEPT !.transcript = "t1"]) }

SalesEvents ==
  { JobEvent("phone.recording_completed", JobObject),
    JobEvent("phone.recording_transcript_completed", JobObject),
    JobEvent("phone.ai_call_summary_changed", JobObject) }

\* no job of the service is waiting, running or sleeping
Idle ==
  \A name \in QueueNames : \A j \in 1..Len(svc[name].jobs) :
    svc[name].jobs[j].pc \in {"completed", "failed", "rejected"}

\* the jobs of the service that have not finished
Busy ==
  { k \in JobKeys :
      /\ k[2] <= Len(svc[k[1]].jobs)
      /\ svc[k[1]].jobs[k[2]].pc \notin {"completed", "failed", "rejected"} }

\* the events of the jobs that run side by side
ConcurrentEvents ==
  { JobEvent("phone.callee_missed", JobObject),
    JobEvent("phone.voicemail_transcript_completed",
             [JobObject EXCEPT !.transcript = "t1"]) }

\* the server with two lead jobs at a time at most: webhooks enqueue jobs,
\* the processors run them against SharePoint, Planner and Teams; of the
\* requests, the read of the task details may fail
NextJobs ==
  \/ SetupQueueProcessors
  \/ \E e \in ConcurrentEvents :
       Cardinality(Busy) <= 1 /\ Webhook(Signed(e))
  \/ \E k \in JobKeys : FindItem(k, TRUE)
  \/ \E k \in JobKeys : PatchItem(k, TRUE)
  \/ \E k \in JobKeys : CreateItem(k, TRUE)
  \/ \E k \in JobKeys : CreateTask(k, TRUE)
  \/ \E k \in JobKeys, ok \in BOOLEAN : GetDetails(k, ok)
  \/ \E k \in JobKeys : PatchDetails(k, TRUE)
  \/ \E k \in JobKeys : RetryWait(k)
  \/ \E k \in JobKeys : LinkTask(k, TRUE)
  \/ \E k \in JobKeys : PostTeams(k, TRUE)
  \/ \E k \in JobKeys : BackoffEnds(k[1], k[2])

SpecJobs == Init /\ [][NextJobs]_vars

\* the server with requests that may fail: one lead job at a time
NextFaults ==
  \/ SetupQueueProcessors
  \/ \E e \in LeadEvents : Idle /\ Webhook(Signed(e))
  \/ \E k \in JobKeys, ok \in BOOLEAN : FindItem(k, ok)
  \/ \E k \in JobKeys, ok \in BOOLEAN : PatchItem(k, ok)
  \/ \E k \in JobKeys, ok \in BOOLEAN : CreateItem(k, ok)
  \/ \E k \in JobKeys, ok \in BOOLEAN : CreateTask(k, ok)
  \/ \E k \in JobKeys, ok \in BOOLEAN : GetDetails(k, ok)
  \/ \E k \in JobKeys, ok \in BOOLEAN : PatchDetails(k, ok)
  \/ \E k \in JobKeys : RetryWait(k)
  \/ \E k \in JobKeys, ok \in BOOLEAN : LinkTask(k, ok)
  \/ \E k \in JobKeys, ok \in BOOLEAN : PostTeams(k, ok)
  \/ \E k \in JobKeys : BackoffEnds(k[1], k[2])

SpecFaults == Init /\ [][NextFaults]_vars

\* the store as the first MissedCall job leaves it when nothing fails
StoreAfterScenarioA ==
  /\ salesLeads = <<[LeadFields(MissedLeadItem(JobObject), 1)
                       EXCEPT !.PlannerTaskId = 1]>>
  /\ salesCalls = <<>>
  /\ tasks = <<[title |-> <<"Follow up:", <<"Missed call from", "n1">> >>,
                description |-> <<"Missed call", "c1", "n1">>,
                etag |-> 2, callId |-> "c1"]>>
  /\ posts = << <<"Missed call from", "n1">> >>

\* the description scenario A leaves in the task
OriginalDescription == <<"Missed call", "c1", "n1">>

\* the server started against the store that scenario A of an earlier run
\* has left: the lead of c1 is linked to its task
InitAppend ==
  /\ InitServer
  /\ StoreAfterScenarioA
  /\ redisUrl = NoUrl
  /\ backend = [name \in QueueNames |-> "memory"]

\* jobs for the stored lead side by side, every request answered: each job
\* finds the lead and its task, so that none creates or links anything,
\* and the only refusals are those of stale details patches
NextAppend ==
  \/ SetupQueueProcessors
  \/ \E e \in ConcurrentEvents : Webhook(Signed(e))
  \/ \E k \in JobKeys : FindItem(k, TRUE)
  \/ \E k \in JobKeys : PatchItem(k, TRUE)
  \/ \E k \in JobKeys : GetDetails(k, TRUE)
  \/ \E k \in JobKeys : PatchDetails(k, TRUE)
  \/ \E k \in JobKeys : RetryWait(k)
  \/ \E k \in JobKeys : PostTeams(k, TRUE)

SpecAppend == InitAppend /\ [][NextAppend]_vars

\* the sales-call jobs with requests that may fail, one job at a time
NextSalesJobs ==
  \/ SetupQueueProcessors
  \/ \E e \in SalesEvents : Idle /\ Webhook(Signed(e))
  \/ \E k \in JobKeys, t \in {"", "x1"}, a \in {"", "a1"} : FetchZoom(k, t, a)
  \/ \E k \in JobKeys, ok \in BOOLEAN : FindItem(k, ok)
  \/ \E k \in JobKeys, ok \in BOOLEAN : PatchItem(k, ok)
  \/ \E k \in JobKeys, ok \in BOOLEAN : CreateItem(k, ok)
  \/ \E k \in JobKeys : BackoffEnds(k[1], k[2])

SpecSalesJobs == Init /\ [][NextSalesJobs]_vars

\* the construction of QueueService for any REDIS_URL, and the registration
\* of the processors on its in-memory queues
NextBackend ==
  \/ NewQueueService
  \/ /\ \A name \in QueueNames : backend[name] = "memory"
     /\ SetupQueueProcessors

SpecBackend == InitBackend /\ [][NextBackend]_vars

\* ---------------------------------------------------------- access token
\* token.expiresOnTimestamp of an answer at time t: t plus the lifetime of
\* the token, which is the safety buffer or more; 0 when it is not set
ExpiresOnTimestamps(t) ==
  {0} \cup { t + SafetyBuffer + n * TickMs : n \in 0..2 }

\* response.data.expires_in of the token endpoint, in s; 0 when it is not set
ExpiresIns == {0, 60, 300}

\* the condition of the cache: a token is cached and the time is more than
\* the safety buffer before its expiry
CacheFreshWithoutBuffer(token, expiry, t) == token # 0 /\ t < expiry

CacheFresh(token, expiry, t) == token # 0 /\ t < expiry - SafetyBuffer

TokenCall(pc, token, cached) == [pc |-> pc, token |-> token, cached |-> cached]

\* getGraphAccessToken() up to its return or its first await
GetGraphAccessToken ==
  /\ Len(tokenCalls) < MaxTokenCalls
  /\ tokenCalls' =
       Append(tokenCalls,
              IF CacheFresh(graphAccessToken, graphAccessTokenExpiry, now)
              THEN TokenCall("returned", graphAccessToken, TRUE)
              ELSE TokenCall("credential", 0, FALSE))
  /\ UNCHANGED <<graphAccessToken, graphAccessTokenExpiry, now>>
  /\ UNCHANGED <<queueVars, routeVars, storeVars, backendVars>>

\* credential.getToken resolves with a token: call i acquires the token
\* numbered i and stores it with its expiry
CredentialResolves(i, expiresOnTimestamp) ==
  /\ i \in 1..Len(tokenCalls)
  /\ tokenCalls[i].pc = "credential"
  /\ graphAccessToken' = i
  /\ graphAccessTokenExpiry' =
       IF expiresOnTimestamp # 0 THEN expiresOnTimestamp
       ELSE now + DefaultLifetimeMs
  /\ tokenCalls' = [tokenCalls EXCEPT ![i] = TokenCall("returned", i, FALSE)]
  /\ UNCHANGED now
  /\ UNCHANGED <<queueVars, routeVars, storeVars, backendVars>>

\* credential.getToken rejects, or its answer has no token and the try
\* block throws: the catch block calls getGraphAccessTokenDirect
CredentialFails(i) ==
  /\ i \in 1..Len(tokenCalls)
  /\ tokenCalls[i].pc = "credential"
  /\ tokenCalls' = [tokenCalls EXCEPT ![i].pc = "direct"]
  /\ UNCHANGED <<graphAccessToken, graphAccessTokenExpiry, now>>
  /\ UNCHANGED <<queueVars, routeVars, storeVars, backendVars>>

\* getGraphAccessTokenDirect: axios.post resolves with an access_token
DirectResolves(i, expires_in) ==
  /\ i \in 1..Len(tokenCalls)
  /\ tokenCalls[i].pc = "direct"
  /\ LET expiresIn == IF expires_in # 0 THEN expires_in ELSE DefaultExpiresIn
     IN graphAccessTokenExpiry' = now + expiresIn * 1000
  /\ graphAccessToken' = i
  /\ tokenCalls' = [tokenCalls EXCEPT ![i] = TokenCall("returned", i, FALSE)]
  /\ UNCHANGED now
  /\ UNCHANGED <<queueVars, routeVars, storeVars, backendVars>>

\* getGraphAccessTokenDirect: axios.post rejects, or its answer has no
\* access_token and the try block throws: the catch block throws again
DirectFails(i) ==
  /\ i \in 1..Len(tokenCalls)
  /\ tokenCalls[i].pc = "direct"
  /\ tokenCalls' = [tokenCalls EXCEPT ![i].pc = "threw"]
  /\ UNCHANGED <<graphAccessToken, graphAccessTokenExpiry, now>>
  /\ UNCHANGED <<queueVars, routeVars, storeVars, backendVars>>

\* time passes
Tick ==
  /\ now < StartMs + MaxTicks * TickMs
  /\ now' = now + TickMs
  /\ UNCHANGED <<graphAccessToken, graphAccessTokenExpiry, tokenCalls>>
  /\ UNCHANGED <<queueVars, routeVars, storeVars, backendVars>>

NextToken ==
  \/ GetGraphAccessToken
  \/ \E i \in 1..MaxTokenCalls :
       \E e \in ExpiresOnTimestamps(now) : CredentialResolves(i, e)
  \/ \E i \in 1..MaxTokenCalls : CredentialFails(i)
  \/ \E i \in 1..MaxTokenCalls, e \in ExpiresIns : DirectResolves(i, e)
  \/ \E i \in 1..MaxTokenCalls : DirectFails(i)
  \/ Tick

SpecToken == Init /\ [][NextToken]_vars

\* ------------------------------------------------------- claim helpers
JobIds == 1..Len(jobs)

AllErr(outs) == \A i \in 1..Len(outs) : outs[i] = "err"

CallsOf(calls, event) == SelectSeq(calls, LAMBDA c : c.ev = event)

\* what a forEach over ls that reaches every listener records
AllCalled(ls, event, err) ==
  [i \in 1..Len(ls) |-> [ev |-> event, idx |-> i, err |-> err]]

\* the step in which job j's handler call is fulfilled / rejected
Resolved(j) == jobs'[j].outcomes = Append(jobs[j].outcomes, "ok")
Rejected(j) == jobs'[j].outcomes = Append(jobs[j].outcomes, "err")

\* C1: a job whose handler fails k times and then succeeds (k < attempts)
\* ends, in the step of that success, completed: k+1 handler calls, k
\* backoff delays, completed count +1, every completed listener called once,
\* no failed or error listener called.
C1_SuccessAfterKFailures ==
  [][\A j \in JobIds :
       (Resolved(j) /\ AllErr(jobs[j].outcomes)) =>
         LET k == Len(jobs[j].outcomes)
         IN /\ jobs'[j].pc = "completed"
            /\ Len(jobs'[j].hcalls) = k + 1
            /\ Len(jobs'[j].delays) = k
            /\ counts'.completed = counts.completed + 1
            /\ jobs'[j].nCompleted = 1
            /\ jobs'[j].lcalls = AllCalled(listeners.completed, "completed", NoError)]_vars

\* C2: a job whose handler fails on all N attempts ends, in the step of the
\* last failure, failed: N handler calls, N-1 backoff delays, active -1,
\* failed +1, every failed listener then every error listener called once
\* with the last attempt's error, no completed listener called.
C2_AllAttemptsFail ==
  [][\A j \in JobIds :
       (Rejected(j) /\ AllErr(jobs[j].outcomes)
          /\ jobs[j].attempt = Attempts(jobs[j].options)) =>
         LET N == Attempts(jobs[j].options)
             err == HandlerError(N)
         IN /\ jobs'[j].pc = "failed"
            /\ Len(jobs'[j].hcalls) = N
            /\ Len(jobs'[j].delays) = N - 1
            /\ counts'.active = counts.active - 1
            /\ counts'.failed = counts.failed + 1
            /\ jobs'[j].lcalls = AllCalled(listeners.failed, "failed", err)
                                   \o AllCalled(listeners.error, "error", err)]_vars

\* C3: when a handler call succeeds and a completed listener throws, the job
\* is completed once, the handler is not called again, failed is unchanged
\* and no failed or error listener is called.
C3_CompletedListenerThrowIsolated ==
  [][\A j \in JobIds :
       (Resolved(j) /\ FirstThrowing(listeners.completed) # 0) =>
         /\ jobs'[j].pc = "completed"
         /\ jobs'[j].nCompleted = 1
         /\ Len(jobs'[j].hcalls) = Len(jobs[j].hcalls)
         /\ counts'.failed = counts.failed
         /\ CallsOf(jobs'[j].lcalls, "failed") = <<>>
         /\ CallsOf(jobs'[j].lcalls, "error") = <<>>]_vars

\* C4: when a job exhausts its attempts and a failed listener throws, every
\* failed listener and every error listener is still called with the last
\* error, the job is counted failed once, and execute's promise is not
\* rejected.
C4_FailedListenerThrowSwallowed ==
  [][\A j \in JobIds :
       (jobs'[j].nFailed > jobs[j].nFailed /\ FirstThrowing(listeners.failed) # 0) =>
         /\ jobs'[j].nFailed = 1
         /\ counts'.failed = counts.failed + 1
         /\ CallsOf(jobs'[j].lcalls, "failed")
              = AllCalled(listeners.failed, "failed", jobs'[j].lastError)
         /\ CallsOf(jobs'[j].lcalls, "error")
              = AllCalled(listeners.error, "error", jobs'[j].lastError)
         /\ jobs'[j].execPromise = "fulfilled"]_vars

\* C5: process(handler) starts the buffered jobs in insertion order (the
\* order of their ids), each with exactly one handler call.
C5_DrainInInsertionOrder ==
  [][(pending # <<>> /\ pending' = <<>>) =>
       /\ \A i, k \in 1..Len(pending) : i < k => pending[i] < pending[k]
       /\ started' = started \o pending
       /\ \A i \in 1..Len(pending) :
            /\ jobs[pending[i]].hcalls = <<>>
            /\ Len(jobs'[pending[i]].hcalls) = 1
            /\ jobs'[pending[i]].pc = "handler"]_vars

C5_Witness ==
  /\ Len(started) >= 2
  /\ \A i \in 1..Len(started) : jobs[started[i]].buffered
  /\ \E j \in JobIds : jobs[j].pc = "completed"

\* C6: the promise of every add call that has returned is fulfilled:
\* whether the job was buffered, is still in its handler, or has failed.
C6_AddAlwaysResolves ==
  \A j \in JobIds : jobs[j].addPromise = "fulfilled"

C6_Witness ==
  \E j \in JobIds :
    /\ ~jobs[j].buffered
    /\ jobs[j].pc \in {"failed", "rejected"}
    /\ AllErr(jobs[j].outcomes)
    /\ Len(jobs[j].outcomes) = MaxAttempts

\* C7: with backoff { type: 'exponential', delay: D } the delay computed
\* after attempt k is D * 2^(k-1); a job that sleeps sleeps for that delay.
C7_ExponentialDelays ==
  \A j \in JobIds :
    LET b == jobs[j].options.backoff
    IN (b.kind = "object" /\ b.type = "exponential" /\ b.delay # Absent) =>
         /\ \A k \in 1..Len(jobs[j].delays) :
              jobs[j].delays[k] = b.delay * 2 ^ (k - 1)
         /\ Len(jobs[j].delays) <= Attempts(jobs[j].options) - 1
         /\ jobs[j].pc = "sleep" =>
              /\ Len(jobs[j].delays) = jobs[j].attempt
              /\ b.delay > 0

C7_Witness ==
  \E j \in JobIds :
    /\ jobs[j].options.backoff = [kind |-> "object", type |-> "exponential", delay |-> 2]
    /\ jobs[j].delays = <<2, 4, 8>>
    /\ jobs[j].sleeps = 3
    /\ AllErr(jobs[j].outcomes)

\* C8: a fixed backoff gives the configured delay after every attempt; with
\* no backoff the delay is 0 and the job never sleeps.
ConfiguredDelay(b) ==
  IF b.kind = "none" \/ b.delay = Absent THEN 0 ELSE b.delay

C8_FixedAndNoBackoff ==
  \A j \in JobIds :
    LET b == jobs[j].options.backoff
    IN /\ (b.kind = "number" \/ (b.kind = "object" /\ b.type # "exponential")) =>
            \A k \in 1..Len(jobs[j].delays) : jobs[j].delays[k] = ConfiguredDelay(b)
       /\ b.kind = "none" =>
            /\ \A k \in 1..Len(jobs[j].delays) : jobs[j].delays[k] = 0
            /\ jobs[j].sleeps = 0
            /\ jobs[j].pc # "sleep"

C8_WitnessNoBackoff ==
  \E j \in JobIds :
    /\ jobs[j].options.backoff.kind = "none"
    /\ Len(jobs[j].hcalls) = 3
    /\ Len(jobs[j].delays) = 2

C8_Witness ==
  \E j \in JobIds :
    /\ jobs[j].options.backoff = [kind |-> "object", type |-> "fixed", delay |-> 2]
    /\ jobs[j].delays = <<2, 2, 2>>

\* C9 as stated: without an attempts option a handler that always fails is
\* called 3 times before the job is failed.
C9_DefaultThreeAttempts ==
  \A j \in JobIds :
    (jobs[j].options.attempts = Absent /\ jobs[j].nFailed > 0
       /\ AllErr(jobs[j].outcomes)) =>
      Len(jobs[j].hcalls) = 3

\* C9 amended: without an attempts option a job gets one attempt: its
\* handler is called at most once, and a failure of that call fails the job
\* at once, with no backoff delay.
C9_DefaultOneAttempt ==
  \A j \in JobIds :
    jobs[j].options.attempts = Absent =>
      /\ Len(jobs[j].hcalls) <= 1
      /\ jobs[j].delays = <<>>
      /\ (jobs[j].outcomes = <<"err">>) =>
           (jobs[j].nFailed = 1 /\ jobs[j].pc \in {"failed", "rejected"})

C9_Witness ==
  \E j \in JobIds :
    /\ jobs[j].options.attempts = Absent
    /\ jobs[j].outcomes = <<"err">>
    /\ jobs[j].pc = "failed"
    /\ Len(jobs[j].hcalls) = 1

\* C10: every handler call that begins in a step calls the handler that is
\* registered after that step (the last one given to process), for new jobs
\* and for retries of jobs started under an earlier handler.
C10_LastRegistrationWins ==
  [][\A j \in 1..Len(jobs') :
       LET old == IF j <= Len(jobs) THEN jobs[j].hcalls ELSE <<>>
           new == jobs'[j].hcalls
       IN \A i \in (Len(old) + 1)..Len(new) : new[i] = handler']_vars

C10_Witness ==
  \E j \in JobIds :
    /\ Len(jobs[j].hcalls) >= 2
    /\ jobs[j].hcalls[1] = 1
    /\ jobs[j].hcalls[Len(jobs[j].hcalls)] = 2
    /\ handler = 2

\* ------------------------------------------------------- route claims
\* the response a step of the webhook route has just sent
Responded == Len(responses') = Len(responses) + 1

LastRequest == responses'[Len(responses')].req

Accepted == responses'[Len(responses')].status = 200

\* the step added exactly one job of the given type, carrying the event, to
\* the named queue, and touched no other queue
AddedOne(name, type, event) ==
  /\ svc'[name].nextId = svc[name].nextId + 1
  /\ svc'[name].datas = Append(svc[name].datas, [type |-> type, event |-> event])
  /\ Len(svc'[name].jobs) = Len(svc[name].jobs) + 1
  /\ svc'[name].jobs[Len(svc'[name].jobs)].options = ServiceOptions
  /\ \A other \in QueueNames \ {name} : svc'[other] = svc[other]

AddedNothing == svc' = svc

JobsOf(name, type, event) ==
  { j \in 1..Len(svc[name].datas) :
      svc[name].datas[j] = [type |-> type, event |-> event] }

AnsweredWith(event) ==
  \E i \in 1..Len(responses) :
    responses[i].status = 200 /\ responses[i].req.body = event

\* C14: a phone.callee_call_log_completed event whose first call-log entry
\* has a result other than "Missed" and "Voicemail" enqueues exactly one
\* SalesCall job; with "Missed" or "Voicemail" it enqueues nothing.
C14_CallLogQueuesSalesCall ==
  [][(Responded /\ Accepted
      /\ LastRequest.body.event = "phone.callee_call_log_completed")
     => IF LastRequest.body.log_result \notin {StrMissed, StrVoicemail}
        THEN AddedOne("salesCalls", "sales_call", LastRequest.body)
        ELSE AddedNothing]_vars

\* the result value the call-ended claim reads
C15_ResultValue(event) ==
  IF event.handup_result # EmptyStr THEN event.handup_result
  ELSE IF event.result # EmptyStr THEN event.result ELSE EmptyStr

C15_ContainsMissedAnyCase(str) ==
  \E i \in 1..Len(str) :
    /\ i + 5 <= Len(str)
    /\ \A k \in 0..5 : LowerChar(str[i + k]) = StrMissedLower[k + 1]

C15_IsMissedResult(str) ==
  \/ str \in {StrCallCanceled, StrVoicemail, StrNoAnswer}
  \/ C15_ContainsMissedAnyCase(str)

\* C15: a call-ended event (phone.callee_ended, phone.caller_ended) enqueues
\* one MissedCall job exactly when its result value (handup_result if
\* non-empty, else result, else "") is "Call Canceled", "Voicemail" or
\* "No Answer", or contains "missed" in any letter case; otherwise nothing
\* is enqueued.
C15_EndedQueuesMissedCall ==
  [][(Responded /\ Accepted /\ LastRequest.body.event \in EndedTags)
     => IF C15_IsMissedResult(C15_ResultValue(LastRequest.body))
        THEN AddedOne("missedCalls", "missed_call", LastRequest.body)
        ELSE AddedNothing]_vars

C15_Witness ==
  /\ \E t \in EndedTags :
       LET e == MakeEvent(t, StrMissedCallUpper, StrAnswered, EmptyStr)
       IN AnsweredWith(e) /\ JobsOf("missedCalls", "missed_call", e) # {}
  /\ \E t \in EndedTags :
       /\ AnsweredWith(MakeEvent(t, EmptyStr, StrAnswered, EmptyStr))
       /\ Len(svc["missedCalls"].datas) = 1

C17_IgnoredEvents ==
  [][(Responded /\ Accepted
      /\ LastRequest.body.event \in ObservedTags \cup UnknownTags)
     => /\ AddedNothing
        /\ \A name \in QueueNames : svc'[name].counts = svc[name].counts]_vars

C17_Witness ==
  /\ AnsweredWith(MakeEvent("phone.callee_ringing", EmptyStr, EmptyStr, EmptyStr))
  /\ AnsweredWith(MakeEvent("meeting.started", EmptyStr, EmptyStr, EmptyStr))
  /\ \A name \in QueueNames : svc[name].nextId = 1

\* ------------------------------------------------------- upsert claims
\* the list an upsert works on
ListOf(fn) == IF fn = "createSalesLeadItem" THEN salesLeads ELSE salesCalls

RecordsWith(list, callId) ==
  { r \in 1..Len(list) : list[r].CallId = callId }

ReturnedCalls ==
  { k \in DOMAIN procs : k[1] = "direct" /\ procs[k].pc = "returned" }

\* C11: two sequential upserts of the same category with the same non-empty
\* correlation id leave exactly one stored record with that id, and the
\* second call returns the id the first call returned (the record the first
\* created, when it created one).
C11_SequentialUpsertsOneRecord ==
  \A k1 \in ReturnedCalls : \A k2 \in ReturnedCalls :
    (/\ k1[2] < k2[2]
     /\ procs[k1].fn = procs[k2].fn
     /\ procs[k1].item.callId = procs[k2].item.callId
     /\ procs[k1].item.callId # "")
    => /\ procs[k2].listItemId = procs[k1].listItemId
       /\ procs[k2].foundId = procs[k1].listItemId
       /\ Cardinality(RecordsWith(ListOf(procs[k1].fn), procs[k1].item.callId)) = 1

C11_Witness ==
  \E fn \in {"createSalesLeadItem", "createSalesCallItem"} :
    /\ <<"direct", 1>> \in ReturnedCalls
    /\ <<"direct", 2>> \in ReturnedCalls
    /\ procs[<<"direct", 1>>].fn = fn
    /\ procs[<<"direct", 2>>].fn = fn
    /\ procs[<<"direct", 1>>].item.callId = "c1"
    /\ procs[<<"direct", 2>>].item.callId = "c1"
    /\ procs[<<"direct", 1>>].item # procs[<<"direct", 2>>].item
    /\ procs[<<"direct", 1>>].foundId = 0
    /\ procs[<<"direct", 2>>].listItemId = 1
    /\ Len(ListOf(fn)) = 1

\* C12: there is at most one Sales Leads record and at most one Sales Calls
\* record per correlation id, whatever the interleaving of the jobs.
C12_OneRecordPerCorrelationId ==
  /\ \A r1, r2 \in 1..Len(salesLeads) :
       salesLeads[r1].CallId = salesLeads[r2].CallId => r1 = r2
  /\ \A r1, r2 \in 1..Len(salesCalls) :
       salesCalls[r1].CallId = salesCalls[r2].CallId => r1 = r2

\* C13: a follow-up task is created at most once per correlation id, also
\* when the queue retries a job and when a later event follows a link-back
\* that failed.
C13_OneTaskPerCorrelationId ==
  \A t1, t2 \in 1..Len(tasks) : tasks[t1].callId = tasks[t2].callId => t1 = t2

\* the fields of a Sales Leads record other than the transcript and the
\* linked follow-up task
LeadFixedFields(r) ==
  [r EXCEPT !.VoicemailTranscript = "", !.PlannerTaskId = 0]

\* C18: once a Sales Leads record is created, no later step changes any of
\* its fields other than the transcript and the linked follow-up task id.
C18_LeadFieldsFixed ==
  [][/\ Len(salesLeads') >= Len(salesLeads)
     /\ \A id \in 1..Len(salesLeads) :
          LeadFixedFields(salesLeads'[id]) = LeadFixedFields(salesLeads[id])]_vars

C18_Witness ==
  \E id \in 1..Len(salesLeads) :
    /\ salesLeads[id].Title = <<"Missed call from", "n1">>
    /\ salesLeads[id].VoicemailTranscript = "t1"
    /\ salesLeads[id].PlannerTaskId # 0
    /\ \E j \in 1..Len(svc["voicemails"].jobs) :
         svc["voicemails"].jobs[j].pc = "completed"

\* the four fields of a Sales Calls record an upsert may patch
CallPatchable(r) ==
  <<r.RecordingUrl, r.TranscriptUrl, r.AiSummary, r.Status>>

CallIncoming(item) ==
  <<item.recordingLink, item.transcript, item.aiSummary, item.status>>

\* the invocation k moved from awaiting one request to another position
Moved(k, from, to) ==
  /\ k \in DOMAIN procs
  /\ procs[k].pc = from
  /\ procs'[k].pc = to

\* C19: an upsert that finds an existing Sales Calls record patches only the
\* non-empty ones of recordingLink, transcript, aiSummary and status: a stored
\* non-empty value is never replaced by an empty one, contact, summary,
\* priority, callTimestamp and duration never change, and no patch is sent
\* when all four incoming fields are empty.
C19_PatchOnlyNonEmpty ==
  [][/\ \A id \in 1..Len(salesCalls) :
          LET old == salesCalls[id]
              new == salesCalls'[id]
          IN /\ [new EXCEPT !.RecordingUrl = "", !.TranscriptUrl = "",
                            !.AiSummary = "", !.Status = ""]
                = [old EXCEPT !.RecordingUrl = "", !.TranscriptUrl = "",
                              !.AiSummary = "", !.Status = ""]
             /\ \A f \in 1..4 :
                  CallPatchable(old)[f] # "" => CallPatchable(new)[f] # ""
     /\ \A k \in DirectKeys :
          (k \in DOMAIN procs /\ procs[k].fn = "createSalesCallItem") =>
            LET it == procs[k].item
                empty == \A f \in 1..4 : CallIncoming(it)[f] = ""
            IN /\ Moved(k, "patch", "returned") =>
                    \A f \in 1..4 :
                      CallPatchable(salesCalls'[procs[k].foundId])[f] =
                        IF CallIncoming(it)[f] # "" THEN CallIncoming(it)[f]
                        ELSE CallPatchable(salesCalls[procs[k].foundId])[f]
               /\ Moved(k, "find", "patch") => ~empty
               /\ (Moved(k, "find", "returned") /\ procs'[k].foundId # 0) =>
                    /\ empty
                    /\ procs'[k].patches = 0
                    /\ salesCalls' = salesCalls]_vars

C19_Witness ==
  \E k \in ReturnedCalls :
    /\ procs[k].fn = "createSalesCallItem"
    /\ procs[k].foundId # 0
    /\ procs[k].patches = 1
    /\ procs[k].item.recordingLink = ""
    /\ procs[k].item.aiSummary # ""
    /\ salesCalls[procs[k].foundId].RecordingUrl # ""
    /\ salesCalls[procs[k].foundId].AiSummary = procs[k].item.aiSummary
    /\ salesCalls[procs[k].foundId].Contact # procs[k].item.contact

C19_WitnessNoPatch ==
  \E k \in ReturnedCalls :
    /\ procs[k].fn = "createSalesCallItem"
    /\ procs[k].foundId # 0
    /\ procs[k].patches = 0
    /\ salesCalls[procs[k].foundId].Status # ""

\* C20: when no record exists, the upsert creates a record that carries
\* every field of the incoming record; a Sales Leads record made from a
\* voicemail event stores the incoming voicemailLink.
C20_CreateCarriesEveryField ==
  [][\A k \in DirectKeys :
       Moved(k, "create", "returned") =>
         LET it == procs[k].item
             id == procs'[k].listItemId
         IN IF procs[k].fn = "createSalesLeadItem"
            THEN /\ Len(salesLeads') = Len(salesLeads) + 1
                 /\ salesLeads'[id].Title = it.summary
                 /\ salesLeads'[id].Channel = it.channel
                 /\ salesLeads'[id].Priority = it.priority
                 /\ salesLeads'[id].Status = it.status
                 /\ salesLeads'[id].CallTimestamp = it.callTimestamp
                 /\ salesLeads'[id].CallId = it.callId
                 /\ salesLeads'[id].VoicemailTranscript = it.transcript
                 /\ salesLeads'[id].VoicemailLink = it.voicemailLink
                 /\ salesLeads'[id].Owner = it.owner
            ELSE /\ Len(salesCalls') = Len(salesCalls) + 1
                 /\ salesCalls'[id].Title = it.summary
                 /\ salesCalls'[id].Contact = it.contact
                 /\ salesCalls'[id].Priority = it.priority
                 /\ salesCalls'[id].Status = it.status
                 /\ salesCalls'[id].CallTimestamp = it.callTimestamp
                 /\ salesCalls'[id].CallId = it.callId
                 /\ salesCalls'[id].Duration = it.duration
                 /\ salesCalls'[id].RecordingUrl = it.recordingLink
                 /\ salesCalls'[id].TranscriptUrl = it.transcript
                 /\ salesCalls'[id].AiSummary = it.aiSummary
                 /\ salesCalls'[id].Owner = it.owner]_vars

\* ------------------------------------------------- claims C28 and C29
\* the jobs of the queue whose execute is suspended at an await
InFlight == { i \in JobIds : jobs[i].pc \in {"handler", "sleep"} }

\* C28: the volatile queue has no head-of-line blocking: a job added while
\* an earlier job is active or waiting in backoff has its handler started
\* within the add call, without waiting for the earlier job
C28_NoHeadOfLineBlocking ==
  [][(nextId' = nextId + 1 /\ handler # 0 /\ InFlight # {})
       => LET j == nextId
          IN /\ jobs'[j].pc = "handler"
             /\ jobs'[j].attempt = 1
             /\ jobs'[j].hcalls = <<handler>>
             /\ started' = Append(started, j)
             /\ \A i \in InFlight : jobs'[i] = jobs[i]]_vars

\* the later job is completed while the earlier job's handler is still
\* running
C28_Witness ==
  /\ Len(jobs) = 2
  /\ started = <<1, 2>>
  /\ jobs[1].pc = "handler"
  /\ jobs[2].pc = "completed"
  /\ counts.completed = 1

\* the later job is completed while the earlier job waits in backoff
C28_WitnessBackoff ==
  /\ Len(jobs) = 2
  /\ started = <<1, 2>>
  /\ jobs[1].pc = "sleep"
  /\ jobs[2].pc = "completed"

\* the number of jobs of the queue at one of the given positions
CountAt(pcs) == Cardinality({ i \in JobIds : jobs[i].pc \in pcs })

\* C29: while a job waits for a backoff delay after a failed attempt with
\* attempts remaining it is counted in the delayed bucket only: every
\* waiting job contributes 1 to delayed and nothing to waiting, active,
\* completed or failed, so that each bucket counts the jobs in its phase
C29_DelayedBucketOnly ==
  CountAt({"sleep"}) > 0
    => /\ counts.delayed = CountAt({"sleep"})
       /\ counts.active = CountAt({"handler"})
       /\ counts.waiting = CountAt({"pending"})
       /\ counts.completed = CountAt({"completed"})
       /\ counts.failed = CountAt({"failed"})

\* ----------------------------------------------------------- claim C30
\* str contains sub, letters compared without regard to case
C30_ContainsAnyCase(str, sub) ==
  \E i \in 1..Len(str) :
    /\ i + Len(sub) - 1 <= Len(str)
    /\ \A k \in 1..Len(sub) :
         \/ str[i + k - 1] = sub[k]
         \/ \E n \in 1..Len(LowerChars) :
              /\ {str[i + k - 1], sub[k]} \subseteq {LowerChars[n], UpperChars[n]}

\* a broker address is configured and names neither localhost nor 127.0.0.1
C30_Durable(url) ==
  /\ url.defined
  /\ url.value # EmptyStr
  /\ ~C30_ContainsAnyCase(url.value, StrLocalhost)
  /\ ~C30_ContainsAnyCase(url.value, StrLoopback)

C30_Constructed == \A name \in QueueNames : backend[name] # "none"

C30_Selected ==
  C30_Constructed
    => \A name \in QueueNames :
         backend[name] = IF C30_Durable(redisUrl) THEN "redis" ELSE "memory"

\* C30: the queues are durable exactly when a broker address is configured
\* and contains neither "localhost" nor "127.0.0.1" in any letter case, and
\* volatile otherwise; the constructor decides once, the three queues are
\* always of the same kind, and the kind never changes afterwards
C30_BackendSelection ==
  [][/\ C30_Selected
     /\ C30_Selected'
     /\ \A a, b \in QueueNames : backend'[a] = backend'[b]
     /\ C30_Constructed => backend' = backend]_vars

\* an address naming LOCALHOST in capitals gave three volatile queues
C30_Witness ==
  /\ redisUrl.defined
  /\ Includes(redisUrl.value, <<"L", "O", "C", "A", "L", "H", "O", "S", "T">>)
  /\ \A name \in QueueNames : backend[name] = "memory"
  /\ \A name \in QueueNames : svc[name].handler # 0

\* an address of another host gave three durable queues
C30_WitnessDurable ==
  /\ redisUrl.defined
  /\ Includes(redisUrl.value, <<"c", "a", "c", "h", "e", ".", "e", "x", "a", "m", "p", "l", "e", ".", "c", "o", "m">>)
  /\ \A name \in QueueNames : backend[name] = "redis"

\* ------------------------------------------------- claims C21 to C27
\* the requests an invocation has made, in order
RequestsOf(L) == [i \in 1..Len(L.log) |-> L.log[i][1]]

\* none of the requests of the invocation failed
AllOk(L) == \A i \in 1..Len(L.log) : L.log[i][2]

\* this step is made by the invocation k
StepOf(k) ==
  /\ k \in DOMAIN procs'
  /\ k \notin DOMAIN procs \/ procs'[k] # procs[k]

\* in this step the handler of job k returns
Returns(k) == StepOf(k) /\ procs'[k].pc = "returned"

\* C21 (scenario A): a MissedCall job that finds no stored record for its
\* correlation id and whose requests all succeed makes, in this order, one
\* lead creation with status "New", one task creation, one details patch
\* that sets the description to the job's details and one link-back patch;
\* when it returns the store holds exactly one lead and one task for the
\* correlation id and the lead links to that task
C21_ScenarioA ==
  [][\A k \in JobKeys :
       (k[1] = "missedCalls" /\ Returns(k) /\ AllOk(procs'[k])
          /\ procs'[k].foundId = 0)
         => LET L == procs'[k]
                c == L.item.callId
            IN /\ RequestsOf(L) = <<"find", "create", "taskCreate", "detailsGet",
                                    "detailsPatch", "link", "post">>
               /\ RecordsWith(salesLeads', c) = {L.listItemId}
               /\ salesLeads'[L.listItemId].Status = "New"
               /\ { t \in 1..Len(tasks') : tasks'[t].callId = c } = {L.taskId}
               /\ tasks'[L.taskId].description = L.details
               /\ salesLeads'[L.listItemId].PlannerTaskId = L.taskId]_vars

\* scenario A has run: the job is completed at its first attempt
C21_Witness ==
  /\ StoreAfterScenarioA
  /\ faults = 0
  /\ Len(svc["missedCalls"].jobs) = 1
  /\ svc["missedCalls"].jobs[1].pc = "completed"
  /\ svc["missedCalls"].jobs[1].attempt = 1
  /\ procs[<<"missedCalls", 1>>].foundId = 0

\* the lead of the correlation id is stored and linked to a task that has a
\* description: an earlier job has completed scenario A
LinkedLeads(callId) ==
  { r \in RecordsWith(salesLeads, callId) :
      /\ salesLeads[r].PlannerTaskId # 0
      /\ tasks[salesLeads[r].PlannerTaskId].description # <<>> }

\* a Sales Leads record without its transcript
WithoutTranscript(r) == [r EXCEPT !.VoicemailTranscript = ""]

\* C22 (scenario B): a Voicemail job with a non-empty transcript, run after
\* a job for the same correlation id has completed scenario A (it finds the
\* lead linked to a task) and with all its requests succeeding, creates no lead and no task, changes no field
\* of the lead but the transcript (the linked task id stays), and sets the
\* description of the linked task to the previous description, the
\* separator and the job's details, so that the previous description is a
\* prefix of the new one; its requests are find, patch, details read,
\* details patch and the notification
C22_ScenarioB ==
  [][\A k \in JobKeys :
       (/\ k[1] = "voicemails"
        /\ StepOf(k)
        /\ procs'[k].item.transcript # ""
        /\ AllOk(procs'[k])
        /\ LinkedLeads(procs'[k].item.callId) # {}
        /\ procs'[k].foundPlannerTaskId # 0)
         => LET L == procs'[k]
                pc == Local(k).pc
                r == FirstOf(RecordsWith(salesLeads, L.item.callId))
                t == salesLeads[r].PlannerTaskId
            IN /\ Len(salesLeads') = Len(salesLeads)
               /\ Len(tasks') = Len(tasks)
               /\ \A i \in 1..Len(salesLeads) :
                    /\ WithoutTranscript(salesLeads'[i])
                          = WithoutTranscript(salesLeads[i])
                    /\ salesLeads'[i] # salesLeads[i]
                          => i = r /\ pc = "patch"
               /\ pc = "patch"
                    => salesLeads'[r].VoicemailTranscript = L.item.transcript
               /\ \A i \in 1..Len(tasks) :
                    tasks'[i] # tasks[i] => i = t /\ pc = "detailsPatch"
               /\ pc = "detailsPatch"
                    => /\ tasks'[t].description
                            = tasks[t].description \o <<Separator>> \o L.details
                       /\ tasks'[t].title = tasks[t].title
               /\ L.pc = "returned"
                    => RequestsOf(L) = <<"find", "patch", "detailsGet",
                                         "detailsPatch", "post">>]_vars

\* scenario B has run after scenario A
C22_Witness ==
  /\ Len(salesLeads) = 1
  /\ salesLeads[1].VoicemailTranscript = "t1"
  /\ salesLeads[1].PlannerTaskId = 1
  /\ Len(tasks) = 1
  /\ tasks[1].description
       = <<"Missed call", "c1", "n1", Separator,
           "Voicemail", "v1", "n1", "u1", "t1">>
  /\ Len(svc["voicemails"].jobs) = 1
  /\ svc["voicemails"].jobs[1].pc = "completed"
  /\ faults = 0

\* the requests of the details retry loop
DetailsRequests == {"detailsGet", "detailsPatch"}

\* how many requests of the log are of the given kinds and outcome
CountOf(L, reqs, ok) ==
  Cardinality({ i \in 1..Len(L.log) : L.log[i][1] \in reqs /\ L.log[i][2] = ok })

\* in this step a cycle of the details retry loop of k ends in failure
CycleFails(k) ==
  /\ StepOf(k)
  /\ Local(k).pc \in DetailsRequests
  /\ ~procs'[k].log[Len(procs'[k].log)][2]

\* in this step the details patch of k is accepted
CycleSucceeds(k) ==
  /\ StepOf(k)
  /\ Local(k).pc = "detailsPatch"
  /\ procs'[k].log[Len(procs'[k].log)][2]

\* the job whose handler the invocation k is
JobOf(k) == svc[k[1]].jobs[k[2]]

\* C24: a details update whose first two cycles fail (the patch is refused
\* or the read fails) and whose third cycle succeeds surfaces no error:
\* after the first and after the second failure another cycle is made, and
\* when the third succeeds the description has been written exactly once,
\* the call returns the task id to the handler, which goes on to the
\* link-back or the notification, and the job's attempt does not fail
C24_ThirdCycleSucceeds ==
  [][\A k \in JobKeys :
       /\ (CycleFails(k) /\ CountOf(procs'[k], DetailsRequests, FALSE) <= 2)
            => /\ procs'[k].pc = "wait"
               /\ svc' = svc
               /\ tasks' = tasks
       /\ (CycleSucceeds(k) /\ CountOf(procs'[k], DetailsRequests, FALSE) = 2)
            => LET L == procs'[k]
               IN /\ L.pc \in {"link", "post", "returned"}
                  /\ L.taskId # 0
                  /\ CountOf(L, {"detailsPatch"}, TRUE) = 1
                  /\ tasks'[L.taskId].etag = tasks[L.taskId].etag + 1
                  /\ tasks'[L.taskId].description = NewDescription(Local(k))
                  /\ svc'[k[1]].jobs[k[2]].outcomes
                       \in {JobOf(k).outcomes, Append(JobOf(k).outcomes, "ok")}
                  /\ svc'[k[1]].jobs[k[2]].attempt = JobOf(k).attempt]_vars

\* a job completed at its first attempt after two refused details patches
C24_Witness ==
  \E k \in JobKeys \cap DOMAIN procs :
    /\ procs[k].pc = "returned"
    /\ CountOf(procs[k], {"detailsPatch"}, FALSE) = 2
    /\ CountOf(procs[k], {"detailsPatch"}, TRUE) = 1
    /\ JobOf(k).pc = "completed"
    /\ JobOf(k).attempt = 1
    /\ JobOf(k).outcomes = <<"ok">>
    /\ tasks[procs[k].taskId].description = procs[k].details

\* C25: one call of the follow-up task upsert makes at most 3 cycles of its
\* retry loop; when the third cycle fails too, its error leaves the handler
\* and fails the current attempt of the job, so that the queue's retry
\* policy applies (the job waits in backoff while attempts remain), and the
\* call makes no fourth cycle
C25_AtMostThreeCycles ==
  [][\A k \in JobKeys :
       /\ StepOf(k) => CountOf(procs'[k], {"detailsGet"}, TRUE)
                          + CountOf(procs'[k], {"detailsGet"}, FALSE) <= 3
       /\ (CycleFails(k) /\ CountOf(procs'[k], DetailsRequests, FALSE) = 3)
            => /\ procs'[k].pc = "threw"
               /\ svc'[k[1]].jobs[k[2]].outcomes = Append(JobOf(k).outcomes, "err")
               /\ svc'[k[1]].jobs[k[2]].lastError = HandlerError(JobOf(k).attempt)
               /\ IF JobOf(k).attempt < ServiceAttempts
                  THEN svc'[k[1]].jobs[k[2]].pc = "sleep"
                  ELSE svc'[k[1]].jobs[k[2]].pc = "failed"
               /\ tasks' = tasks]_vars

\* three cycles have failed and the job waits for its second attempt
C25_Witness ==
  \E k \in JobKeys \cap DOMAIN procs :
    /\ procs[k].pc = "threw"
    /\ CountOf(procs[k], {"detailsGet"}, TRUE) = 3
    /\ CountOf(procs[k], {"detailsPatch"}, FALSE) = 3
    /\ JobOf(k).pc = "sleep"
    /\ JobOf(k).attempt = 1

\* in this step a request of k in one of the given positions fails
RequestFails(k, pcs) ==
  /\ StepOf(k)
  /\ Local(k).pc \in pcs
  /\ ~procs'[k].log[Len(procs'[k].log)][2]

\* C26: the soft-fail paths never fail a job: when the link-back patch
\* fails the handler goes on to the notification or returns, when the
\* notification fails the handler returns, nothing is written by the
\* failed request, and a job whose link-back or notification failed is
\* never failed by it: its handler returns, it is counted completed and
\* its handler is not invoked again
C26_SoftFailNeverFailsJob ==
  [][\A k \in JobKeys :
       /\ RequestFails(k, {"link"})
            => /\ procs'[k].pc \in {"post", "returned"}
               /\ salesLeads' = salesLeads
               /\ svc'[k[1]].jobs[k[2]].outcomes
                    \in {JobOf(k).outcomes, Append(JobOf(k).outcomes, "ok")}
       /\ RequestFails(k, {"post"})
            => /\ procs'[k].pc = "returned"
               /\ posts' = posts
       /\ (StepOf(k) /\ CountOf(procs'[k], {"link", "post"}, FALSE) > 0
              /\ procs'[k].pc \in {"returned", "threw"})
            => LET jb == svc'[k[1]].jobs[k[2]]
               IN /\ procs'[k].pc = "returned"
                  /\ jb.pc = "completed"
                  /\ jb.outcomes = Append(JobOf(k).outcomes, "ok")
                  /\ Len(jb.hcalls) = jb.attempt
                  /\ jb.delays = JobOf(k).delays
                  /\ svc'[k[1]].counts.completed = svc[k[1]].counts.completed + 1
                  /\ svc'[k[1]].counts.failed = svc[k[1]].counts.failed
                  /\ svc'[k[1]].counts.delayed = svc[k[1]].counts.delayed
       /\ (k[2] <= Len(svc[k[1]].jobs) /\ JobOf(k).pc = "completed")
            => svc'[k[1]].jobs[k[2]] = JobOf(k)]_vars

\* a job is completed at its first attempt although its link-back and its
\* notification both failed
C26_Witness ==
  \E k \in JobKeys \cap DOMAIN procs :
    /\ procs[k].log[Len(procs[k].log)] = <<"post", FALSE>>
    /\ CountOf(procs[k], {"link"}, FALSE) = 1
    /\ JobOf(k).pc = "completed"
    /\ JobOf(k).attempt = 1
    /\ posts = <<>>
    /\ salesLeads[procs[k].listItemId].PlannerTaskId = 0

\* C27: a store error during the find, the create or the patch of a record
\* upsert leaves the handler and fails that attempt of the job: the queue
\* waits for the backoff delay and invokes the handler again while
\* attempts remain, and reports the job failed when none remains; the
\* failed attempt has created no follow-up task and posted no notification
C27_UpsertErrorFailsAttempt ==
  [][\A k \in JobKeys :
       /\ RequestFails(k, {"find", "patch", "create"})
            => LET jb == svc'[k[1]].jobs[k[2]]
                   a == JobOf(k).attempt
               IN /\ procs'[k].pc = "threw"
                  /\ jb.outcomes = Append(JobOf(k).outcomes, "err")
                  /\ jb.lastError = HandlerError(a)
                  /\ IF a < ServiceAttempts
                     THEN /\ jb.pc = "sleep"
                          /\ jb.delays = Append(JobOf(k).delays,
                                                ServiceBackoffDelay * 2 ^ (a - 1))
                     ELSE /\ jb.pc = "failed"
                          /\ svc'[k[1]].counts.failed = svc[k[1]].counts.failed + 1
                  /\ CountOf(procs'[k], {"taskCreate", "post"}, TRUE) = 0
                  /\ CountOf(procs'[k], {"taskCreate", "post"}, FALSE) = 0
                  /\ tasks' = tasks
                  /\ posts' = posts
       /\ (k[2] <= Len(svc[k[1]].jobs) /\ JobOf(k).pc = "sleep"
              /\ svc'[k[1]].jobs[k[2]] # JobOf(k))
            => /\ svc'[k[1]].jobs[k[2]].pc = "handler"
               /\ svc'[k[1]].jobs[k[2]].attempt = JobOf(k).attempt + 1
               /\ Len(svc'[k[1]].jobs[k[2]].hcalls) = Len(JobOf(k).hcalls) + 1]_vars

\* the create of the lead failed at the first attempt and the job succeeded
\* at its second
C27_Witness ==
  \E k \in JobKeys \cap DOMAIN procs :
    /\ JobOf(k).outcomes = <<"err", "ok">>
    /\ JobOf(k).pc = "completed"
    /\ JobOf(k).delays = <<ServiceBackoffDelay>>
    /\ procs[k].attempt = 2
    /\ CountOf(procs[k], {"create"}, TRUE) = 1
    /\ Len(tasks) = 1
    /\ faults = 1

\* the find failed at each of the three attempts and the job is failed
C27_WitnessExhausted ==
  \E k \in JobKeys \cap DOMAIN procs :
    /\ JobOf(k).outcomes = <<"err", "err", "err">>
    /\ JobOf(k).pc = "failed"
    /\ procs[k].log = << <<"find", FALSE>> >>
    /\ tasks = <<>>
    /\ posts = <<>>

\* the invocations of job handlers that have returned
ReturnedJobs == { k \in JobKeys \cap DOMAIN procs : procs[k].pc = "returned" }

\* C23: appends to one follow-up task lose no content under interleaving.
\* With jobs appending to the same existing task side by side and the
\* store refusing stale patches, every details patch is sent with the
\* version tag and the description read by the read of the same cycle, an
\* accepted patch writes what was stored followed by the separator and the
\* job's details, and once two jobs have returned the description starts
\* with the original description and holds the details of both
C23_NoLostAppend ==
  [][/\ \A k \in JobKeys :
          (StepOf(k) /\ Local(k).pc = "detailsPatch")
            => LET L == Local(k)
               IN /\ L.log[Len(L.log)] = <<"detailsGet", TRUE>>
                  /\ tasks' # tasks
                       => /\ L.etag = tasks[L.taskId].etag
                          /\ tasks'[L.taskId].description
                               = tasks[L.taskId].description
                                   \o <<Separator>> \o L.details
     /\ \A k1, k2 \in ReturnedJobs' :
          k1 # k2
            => LET d == tasks'[procs'[k1].taskId].description
                   d1 == <<Separator>> \o procs'[k1].details
                   d2 == <<Separator>> \o procs'[k2].details
               IN /\ procs'[k1].taskId = procs'[k2].taskId
                  /\ SubSeq(d, 1, Len(OriginalDescription)) = OriginalDescription
                  /\ Includes(d, d1)
                  /\ Includes(d, d2)
                  /\ Len(d) >= Len(OriginalDescription) + Len(d1) + Len(d2)]_vars

\* two jobs have appended side by side: the patch of one was refused once
\* and accepted in its second cycle
C23_Witness ==
  \E k1, k2 \in ReturnedJobs :
    /\ k1 # k2
    /\ CountOf(procs[k1], {"detailsPatch"}, FALSE) = 1
    /\ CountOf(procs[k2], {"detailsPatch"}, FALSE) = 0
    /\ Len(tasks) = 1
    /\ tasks[1].description
         = OriginalDescription \o <<Separator>> \o procs[k2].details
             \o <<Separator>> \o procs[k1].details
    /\ JobOf(k1).pc = "completed"
    /\ JobOf(k2).pc = "completed"

\* ------------------------------------------------- claims C31 to C37
\* the queue has no handler: every job added so far is buffered and none
\* has been started
C31_Buffered ==
  handler = 0
    => /\ pending = [i \in 1..Len(jobs) |-> i]
       /\ counts.waiting = Len(pending)
       /\ counts.active = 0
       /\ started = <<>>
       /\ \A j \in JobIds : jobs[j].pc = "pending" /\ jobs[j].hcalls = <<>>

\* C31: a job added before any handler is registered is buffered and not
\* run: until process is called it has no handler invocation and waiting
\* is the number of buffered jobs; when process(handler) returns the buffer
\* is empty, waiting is 0, and every buffered job has been started and is
\* counted active, each with the options of its own add call
C31_BufferedUntilProcess ==
  [][/\ C31_Buffered
     /\ C31_Buffered'
     /\ (handler = 0 /\ handler' # 0)
          => /\ pending' = <<>>
             /\ counts'.waiting = 0
             /\ counts'.active = Len(pending)
             /\ \A i \in 1..Len(pending) :
                  LET j == pending[i]
                  IN /\ jobs'[j].pc = "handler"
                     /\ jobs'[j].hcalls = <<handler'>>
                     /\ jobs'[j].attempt = 1
                     /\ jobs'[j].options = jobs[j].options]_vars

\* two jobs buffered with different options have been started by process
C31_Witness ==
  /\ Len(jobs) = 2
  /\ handler # 0
  /\ pending = <<>>
  /\ jobs[1].buffered /\ jobs[2].buffered
  /\ jobs[1].options # jobs[2].options
  /\ jobs[1].pc = "handler" /\ jobs[2].pc = "handler"
  /\ counts.waiting = 0
  /\ counts.active = 2

\* C34: with listeners that do not throw, waiting, active, completed, failed
\* and delayed are never negative, delayed <= active, and waiting + active +
\* completed + failed is the number of add calls made so far
C34_CountsInvariant ==
  /\ \A f \in {"waiting", "active", "completed", "failed", "delayed"} :
       counts[f] >= 0
  /\ counts.delayed <= counts.active
  /\ counts.waiting + counts.active + counts.completed + counts.failed
       = nextId - 1

\* one job is completed, one is failed, after a backoff wait
C34_Witness ==
  /\ nextId - 1 = 2
  /\ counts.completed = 1
  /\ counts.failed = 1
  /\ \E j \in JobIds : jobs[j].sleeps > 0

\* the job has reached a terminal outcome
Terminal(j) == jobs[j].pc \in {"completed", "failed"}

\* C35: with listeners that do not throw, a job reaches at most one
\* terminal outcome, at most once: it is never reported both completed and
\* failed, no completed or failed listener is called twice for it, and
\* once it is terminal nothing about it changes: its handler is not
\* invoked again, also when process is called again
C35_OneTerminalOutcome ==
  [][\A j \in 1..Len(jobs') :
       /\ jobs'[j].nCompleted + jobs'[j].nFailed <= 1
       /\ jobs'[j].pc = "completed" <=> jobs'[j].nCompleted = 1
       /\ jobs'[j].pc = "failed" <=> jobs'[j].nFailed = 1
       /\ \A a, b \in 1..Len(jobs'[j].lcalls) :
            (jobs'[j].lcalls[a].ev = jobs'[j].lcalls[b].ev
               /\ jobs'[j].lcalls[a].idx = jobs'[j].lcalls[b].idx) => a = b
       /\ (j <= Len(jobs) /\ Terminal(j)) => jobs'[j] = jobs[j]]_vars

\* a buffered job is completed with its completed listener called once, and
\* another job is failed after two handler invocations
C35_Witness ==
  /\ \E j \in JobIds : /\ jobs[j].pc = "completed"
                       /\ Len(jobs[j].lcalls) = 1
                       /\ jobs[j].buffered
  /\ \E j \in JobIds : jobs[j].pc = "failed" /\ Len(jobs[j].hcalls) = 2

\* job j has been added / has become completed or failed
Added(j) == j <= Len(jobs)
Finished(j) == j <= Len(jobs) /\ jobs[j].pc \in {"completed", "failed"}

\* C36: when the handler is eventually registered, every handler invocation
\* eventually returns or throws and every backoff timer eventually fires,
\* every job added becomes completed or failed, and from some time on (no
\* more jobs being added) the active and delayed counts are 0
C36_EveryJobFinishes ==
  /\ \A j \in 1..MaxJobs : Added(j) ~> Finished(j)
  /\ <>[](counts.active = 0 /\ counts.delayed = 0)

\* every job has finished, one of them after waiting in backoff, and the
\* active and delayed counts are back at 0
C36_Witness ==
  /\ Len(jobs) = MaxJobs
  /\ \A j \in JobIds : Finished(j)
  /\ \E j \in JobIds : jobs[j].sleeps > 0 /\ jobs[j].buffered
  /\ counts.active = 0
  /\ counts.delayed = 0

\* the handler invocations of job j that have not settled yet
InFlightCalls(j) == Len(jobs[j].hcalls) - Len(jobs[j].outcomes)

\* in this step the handler of job j is invoked again
Retried(j) ==
  /\ jobs[j].hcalls # <<>>
  /\ Len(jobs'[j].hcalls) = Len(jobs[j].hcalls) + 1

\* C37: the attempts of one job never overlap and are bounded: at most one
\* handler invocation of the job is in flight, a retry starts only after
\* the previous invocation has failed and its backoff wait (if any) has
\* ended, and a job that has been started has had at least 1 and at most
\* max(1, attempts) handler invocations, also for attempts 0 or negative
C37_AttemptsSequentialAndBounded ==
  [][\A j \in 1..Len(jobs') :
       LET jb == jobs'[j]
           n == Len(jb.hcalls)
       IN /\ n - Len(jb.outcomes) \in {0, 1}
          /\ n - Len(jb.outcomes) = 1 <=> jb.pc = "handler"
          /\ n <= Max(1, IF jb.options.attempts = Absent THEN 1
                         ELSE jb.options.attempts)
          /\ jb.pc \in {"handler", "sleep", "completed", "failed", "rejected"}
               => n >= 1
          /\ (j <= Len(jobs) /\ Retried(j))
               => /\ jb.outcomes[n - 1] = "err"
                  /\ InFlightCalls(j) = 0 \/ jobs[j].pc = "handler"
                  /\ jobs[j].pc = "sleep"
                       \/ (jobs[j].pc = "handler"
                             /\ jb.delays[n - 1] = 0)
                  /\ jb.sleeps = Cardinality({ i \in 1..Len(jb.delays) :
                                                 jb.delays[i] > 0 })]_vars

\* ----------------------------------------------------------- claim C32
\* the type tag of the jobs of each queue of the service
C32_TagOf(name) ==
  CASE name = "missedCalls" -> "missed_call"
    [] name = "voicemails" -> "voicemail"
    [] OTHER -> "sales_call"

\* the lead item a processor builds from the data of job j of a queue
C32_ItemOf(name, data) ==
  IF name = "missedCalls" THEN MissedLeadItem(data.event.object)
  ELSE VoicemailLeadItem(data.event.object)

\* C32: every handler invocation of a job, at the first attempt and at
\* every retry, works on the same job: the id given at add (its position
\* in the queue) and the same data, whose type tag is that of the queue it
\* was created for and never changes
C32_SameJobEveryAttempt ==
  [][\A name \in QueueNames :
       /\ svc'[name].nextId = Len(svc'[name].jobs) + 1
       /\ Len(svc'[name].datas) = Len(svc'[name].jobs)
       /\ \A j \in 1..Len(svc[name].datas) :
            svc'[name].datas[j] = svc[name].datas[j]
       /\ \A j \in 1..Len(svc'[name].datas) :
            /\ svc'[name].datas[j].type = C32_TagOf(name)
            /\ StepOf(<<name, j>>)
                 => LET L == procs'[<<name, j>>]
                    IN /\ L.item = C32_ItemOf(name, svc'[name].datas[j])
                       /\ L.item.callId = svc[name].datas[j].event.object.call_id
                       /\ L.attempt = svc[name].jobs[j].attempt
                       /\ L.attempt = Len(svc[name].jobs[j].hcalls)]_vars

\* a voicemail job is in its third handler invocation
C32_Witness ==
  /\ Len(svc["voicemails"].jobs) = 1
  /\ svc["voicemails"].jobs[1].pc = "handler"
  /\ svc["voicemails"].jobs[1].hcalls = <<1, 1, 1>>
  /\ <<"voicemails", 1>> \in DOMAIN procs
  /\ procs[<<"voicemails", 1>>].attempt = 3
  /\ procs[<<"voicemails", 1>>].pc = "patch"
  /\ svc["voicemails"].datas[1].type = "voicemail"

\* the upsert has issued its find query: the query is awaited or answered
FindIssued(L) ==
  L.pc = "find" \/ \E i \in 1..Len(L.log) : L.log[i][1] = "find"

\* the upserts of one list that were given no correlation id and returned
ReturnedWithoutId(fn) ==
  { k \in ReturnedCalls : procs[k].fn = fn /\ procs[k].item.callId = "" }

\* C39: an upsert issues its find query exactly when the correlation id of
\* its item is not empty; an upsert with an empty correlation id makes one
\* request, the create, and returns a record that no other upsert returned,
\* so that two such upserts leave two records.
C39_EmptyIdAlwaysCreates ==
  /\ \A k \in DOMAIN procs :
       /\ FindIssued(procs[k]) <=> procs[k].item.callId # ""
       /\ procs[k].item.callId = "" /\ procs[k].pc = "returned"
          => /\ procs[k].log = << <<"create", TRUE>> >>
             /\ procs[k].foundId = 0
             /\ procs[k].listItemId \in 1..Len(ListOf(procs[k].fn))
             /\ ListOf(procs[k].fn)[procs[k].listItemId].CallId = ""
  /\ \A fn \in {"createSalesLeadItem", "createSalesCallItem"} :
       /\ \A k1 \in ReturnedWithoutId(fn) : \A k2 \in ReturnedWithoutId(fn) :
            k1 # k2 => procs[k1].listItemId # procs[k2].listItemId
       /\ Cardinality(RecordsWith(ListOf(fn), ""))
            >= Cardinality(ReturnedWithoutId(fn))

C39_Witness ==
  \E fn \in {"createSalesLeadItem", "createSalesCallItem"} :
    /\ Cardinality(ReturnedWithoutId(fn)) = 2
    /\ procs[<<"direct", 1>>].item = procs[<<"direct", 2>>].item
    /\ Len(ListOf(fn)) = 2

\* the lead jobs that are completed
CompletedLeadJobs ==
  { k \in JobKeys : /\ k[1] \in {"missedCalls", "voicemails"}
                    /\ k[2] <= Len(svc[k[1]].jobs)
                    /\ JobOf(k).pc = "completed" }

\* the answer to the Teams post of invocation k arrives in this step
PostAnswered(k) == StepOf(k) /\ Awaits(k, "post")

\* C40: the notification of a missed-call or voicemail job is posted at
\* most once over all the attempts of the job. The post is the last request
\* of an attempt: whether it succeeds or fails, the handler returns and the
\* job is completed in the same turn, with no further delay and no failure
\* counted, and a completed job is never run again; so there are never more
\* notifications than completed lead jobs, and no attempt that posted is
\* followed by another attempt. A voicemail job awaits the post only when
\* its transcript is not empty.
C40_PostedAtMostOnce ==
  [][/\ Len(posts) <= Cardinality(CompletedLeadJobs)
     /\ Len(posts') <= Cardinality(CompletedLeadJobs')
     /\ posts' # posts => \E k \in JobKeys : PostAnswered(k)
     /\ \A k \in JobKeys :
          /\ PostAnswered(k)
               => /\ k[1] \in {"missedCalls", "voicemails"}
                  /\ Len(posts') <= Len(posts) + 1
                  /\ CountOf(procs'[k], {"post"}, TRUE)
                       + CountOf(procs'[k], {"post"}, FALSE) = 1
                  /\ procs'[k].log[Len(procs'[k].log)][1] = "post"
                  /\ procs'[k].pc = "returned"
                  /\ svc'[k[1]].jobs[k[2]].pc = "completed"
                  /\ svc'[k[1]].jobs[k[2]].delays = JobOf(k).delays
                  /\ svc'[k[1]].counts.failed = svc[k[1]].counts.failed
                  /\ k \notin CompletedLeadJobs
                  /\ k \in CompletedLeadJobs'
                  /\ k[1] = "voicemails"
                       => svc[k[1]].datas[k[2]].event.object.transcript # ""
          /\ k \in CompletedLeadJobs
               => /\ ~StepOf(k)
                  /\ svc'[k[1]].jobs[k[2]] = JobOf(k)]_vars

\* a voicemail job with a transcript posted its notification at its third
\* attempt, after two attempts that failed before the post
C40_Witness ==
  \E k \in CompletedLeadJobs \cap DOMAIN procs :
    /\ k[1] = "voicemails"
    /\ JobOf(k).attempt = 3
    /\ JobOf(k).outcomes = <<"err", "err", "ok">>
    /\ procs[k].log[Len(procs[k].log)] = <<"post", TRUE>>
    /\ Len(posts) = 1

\* the signature header of the request is the one Zoom computes for its
\* timestamp header and its body
SignatureValidates(req) ==
  /\ Len(req.signature.value) = 2
  /\ req.signature.value =
       ExpectedSignature(JSONStringify(req.body), req.timestamp.value,
                         SecretToken)

\* the request lacks its timestamp header or its signature header
LacksHeader(req) == Falsy(req.timestamp) \/ Falsy(req.signature)

\* C38: a webhook request that lacks the timestamp header or the signature
\* header is answered 400, and one whose signature does not validate is
\* answered 401; either way the request is answered before it is
\* classified and the three queues are left as they were: no job is
\* added and no count changes. A signature whose length differs from the
\* expected one is answered 401 like any other invalid signature.
C38_RejectedBeforeClassification ==
  [][Responded =>
       LET res == responses'[Len(responses')]
       IN /\ LacksHeader(LastRequest) => res.status = 400
          /\ (~LacksHeader(LastRequest) /\ ~SignatureValidates(LastRequest))
               => res.status = 401
          /\ (~LacksHeader(LastRequest) /\ Len(LastRequest.signature.value) # 2)
               => res.status = 401
          /\ (LacksHeader(LastRequest) \/ ~SignatureValidates(LastRequest))
               => /\ svc' = svc
                  /\ \A name \in QueueNames :
                       /\ svc'[name].counts = svc[name].counts
                       /\ Len(svc'[name].jobs) = Len(svc[name].jobs)
          /\ res.status \in {400, 401}
               => LacksHeader(LastRequest) \/ ~SignatureValidates(LastRequest)]_vars

\* a request without signature header was answered 400 and a request whose
\* signature is longer than the expected one was answered 401, and no queue
\* holds a job
C38_Witness ==
  /\ Len(responses) = 2
  /\ ~responses[1].req.signature.set
  /\ responses[1].status = 400
  /\ Len(responses[2].req.signature.value) = 3
  /\ responses[2].status = 401
  /\ \A name \in QueueNames : Len(svc[name].jobs) = 0

\* a request whose signature has the expected length and was made with
\* another secret was answered 401
C38_WitnessForged ==
  \E i \in 1..Len(responses) :
    /\ Len(responses[i].req.signature.value) = 2
    /\ ~SignatureValidates(responses[i].req)
    /\ responses[i].status = 401

\* getGraphAccessToken is called in this step: the call it adds
NewTokenCall == tokenCalls'[Len(tokenCalls')]

\* the validity the cached token has left, by its cached expiry
ValidityLeft == graphAccessTokenExpiry - now

\* C33: a call of the token accessor is answered from the cache, without
\* a request to the issuer, exactly when a token is cached and the time is
\* more than 120000 ms before the cached expiry; the token it returns is
\* the cached one and has more than 120000 ms left. In every other case the
\* call asks the issuer; when the credential or, after it failed, the token
\* endpoint answers with a token, the call stores that new token together
\* with an expiry taken from the answer and returns it; a call stores
\* nothing only when both have failed, and then it throws.
C33_CachedOnlyWhenFresh ==
  [][/\ Len(tokenCalls') = Len(tokenCalls) + 1
          => /\ NewTokenCall.cached <=> (graphAccessToken # 0 /\ ValidityLeft > 120000)
             /\ NewTokenCall.cached
                  => /\ NewTokenCall.pc = "returned"
                     /\ NewTokenCall.token = graphAccessToken
             /\ ~NewTokenCall.cached => NewTokenCall.pc = "credential"
             /\ graphAccessToken' = graphAccessToken
             /\ graphAccessTokenExpiry' = graphAccessTokenExpiry
     /\ \A i \in 1..Len(tokenCalls) :
          /\ (tokenCalls[i].pc \in {"credential", "direct"}
                /\ tokenCalls'[i].pc = "returned")
               => /\ ~tokenCalls'[i].cached
                  /\ tokenCalls'[i].token # 0
                  /\ tokenCalls'[i].token # graphAccessToken
                  /\ \A j \in 1..Len(tokenCalls) :
                       tokenCalls[j].token # tokenCalls'[i].token
                  /\ graphAccessToken' = tokenCalls'[i].token
                  /\ graphAccessTokenExpiry' > now
          /\ tokenCalls'[i].pc = "threw"
               => tokenCalls[i].pc \in {"direct", "threw"}
          /\ (tokenCalls[i].pc = "direct" /\ tokenCalls'[i].pc = "threw")
               => /\ graphAccessToken' = graphAccessToken
                  /\ graphAccessTokenExpiry' = graphAccessTokenExpiry
          /\ tokenCalls[i].pc \in {"returned", "threw"}
               => tokenCalls'[i] = tokenCalls[i]]_vars

\* a first call acquired a token, a second call was served it from the
\* cache, and a third call, made when exactly 120000 ms were left, asked
\* the issuer again
C33_Witness ==
  /\ Len(tokenCalls) = 3
  /\ tokenCalls[1] = TokenCall("returned", 1, FALSE)
  /\ tokenCalls[2] = TokenCall("returned", 1, TRUE)
  /\ tokenCalls[3].pc = "credential"
  /\ graphAccessToken = 1
  /\ ValidityLeft = 120000

====
